---- MODULE Spec2Model ----
(***************************************************************************)
(* streamText with automatic tool roundtrips (ai/core generate-text/       *)
(* stream-text.ts, kept in this tree as                                    *)
(* src/examples/next-lmnt/app/api/completion/route.ts).                    *)
(*                                                                         *)
(* One run of streamText is modelled from the moment the                   *)
(* DefaultStreamTextResult has been constructed: the first provider call   *)
(* has returned, its stream is wrapped by createTransformedStream and      *)
(* added to the stitchable stream.  The provider (together with the tool   *)
(* execution transform in front of it) is the environment: it chooses      *)
(* each next part of the running roundtrip.                                *)
(***************************************************************************)
EXTENDS Integers, Sequences, FiniteSets, TLC

(***************************************************************************)
(* Bounds of the model.                                                    *)
(***************************************************************************)
\* largest value of the maxToolRoundtrips option that is explored
MaxToolRoundtripsBound == 2
\* number of parts the provider side delivers in one run, all roundtrips together
MaxParts == 4

\* parts carried by a stream that is forked, and forks obtained from it
MaxTeeParts == 3

MaxForks == 2

\* parts carried by a stream that goes through an HTTP adapter
MaxPipeParts == 3

(***************************************************************************)
(* Program constants.                                                      *)
(***************************************************************************)
\* promptTokens / completionTokens / totalTokens of the fallback usage
NaN == -1

Roundtrips == 0..MaxToolRoundtripsBound

VARIABLES
    maxToolRoundtrips,      \* option of streamText
    currentToolRoundtrip,   \* ordinal of the roundtrip created last
    pc,                     \* where the newest roundtrip's transform stands
    pendingExec,            \* call ids whose execute() has not settled yet
    nextId,                 \* next tool call id the provider hands out
    received,               \* per roundtrip: chunks handed to transform()
    text,                   \* per roundtrip closure: let text
    toolCalls,              \* per roundtrip closure: const toolCalls
    toolResults,            \* per roundtrip closure: const toolResults
    finishReason,           \* per roundtrip closure: <<>> is undefined
    usage,                  \* per roundtrip closure: <<>> is undefined
    providerMetadata,       \* per roundtrip closure: <<>> is undefined
    onChunkLog,             \* chunks passed to onChunk, in call order
    rtOut,                  \* per roundtrip: readable side queue of its transform
    rtState,                \* per roundtrip: "none", "open", "closed", "errored"
    usagePromise,           \* <<>> is pending, <<v>> is resolved with v
    finishReasonPromise,
    textPromise,
    toolCallsPromise,       \* <<r>>: resolved with the toolCalls array of roundtrip r
    toolResultsPromise,     \* <<r>>: resolved with the toolResults array of roundtrip r
    providerMetadataPromise,
    innerStreams,           \* stitchable stream: queue of inner streams (roundtrips)
    isClosed,               \* stitchable stream: close() has been called
    closeCalls,             \* number of closeStitchableStream() calls
    outState,               \* stitchable output: "open", "closed", "errored"
    output,                 \* parts emitted on the logical output stream
    promptMessages,         \* message history shared by all roundtrips
    callLog,                \* provider calls issued: prompt type and history sent
    onFinishLog,            \* events passed to onFinish, in call order
    rootSpanEnded,          \* number of rootSpan.end() calls
    aborted,                \* the caller's abortSignal has fired
    toolCallStreaming,      \* option experimental_toolCallStreaming
    onChunkAsync,           \* onChunk returns a promise that settles later
    toolCallsMayFail,       \* the provider may name unknown tools or bad arguments
    maxRetries,             \* option of streamText, handed to the retry helper
    retries,                \* per roundtrip: doStream calls repeated by retry()
    onChunkPending,         \* a promise returned by onChunk is unsettled
    teeParts,               \* every part the original stream carries
    teeSource,              \* parts not yet read from the stream first teed
    forks,                  \* the forks obtained so far, in order of teeStream()
    adapter,                \* the HTTP adapter that was called, or "none"
    customGetErrorMessage,  \* the caller passes options.getErrorMessage
    pipeParts,              \* parts of two runs that differ in error values only
    pipeEnding,             \* how the adapted stream ends: "done" or "error"
    pipePos,                \* parts consumed by the adapter's reader
    pipePc,                 \* "idle", "reading" or "ended"
    response,               \* per run: what was written to the response
    providers,              \* registry: the registered {id, provider} pairs
    lookup,                 \* registry: the last languageModel(id) call
    rows,                   \* streamable: the chain of rows, linked by next
    resolved,               \* streamable: rows whose promise has resolved
    row,                    \* iterator: position in the chain (let row)
    curr,                   \* iterator: let curr
    done,                   \* iterator: let done
    initial,                \* iterator: let initial
    nextPc,                 \* iterator: where the last next() call stands
    yielded,                \* values next() returned with done: false
    status,                 \* useAssistant: state status
    threadStatus,           \* useAssistant: state threadStatus
    errorState,             \* useAssistant: state error, <<>> is undefined
    messages,               \* useAssistant: state messages
    abortControllerRef,     \* useAssistant: call whose controller is stored, 0 is null
    signalAborted,          \* useAssistant: per call, abortController.signal.aborted
    appendPc,               \* useAssistant: per call, where append() stands
    onErrorCalls,           \* useAssistant: errors passed to onError
    processPc,              \* AssistantResponse: where start() stands
    sent,                   \* AssistantResponse: parts enqueued on the stream
    streamState,            \* AssistantResponse: "readable", "closed" or "cancelled"
    controllerCloseCalls,   \* AssistantResponse: controller.close() calls
    thrown,                 \* AssistantResponse: what process threw, <<>> if nothing
    effect,                 \* useStreamableValue: the effect run last, 0 is none
    cancelled,              \* useStreamableValue: per effect, let cancelled
    iteratorPc,             \* useStreamableValue: per effect, where the async loop stands
    iterated,               \* useStreamableValue: values each iteration has yielded
    transitions,            \* useStreamableValue: startTransition callbacks not yet run
    updates                 \* useStreamableValue: state updates performed

streamVars == <<maxToolRoundtrips, currentToolRoundtrip, pc, pendingExec, nextId,
          received, text, toolCalls, toolResults, finishReason, usage,
          providerMetadata, onChunkLog, rtOut, rtState, usagePromise,
          finishReasonPromise, textPromise, toolCallsPromise,
          toolResultsPromise, providerMetadataPromise, innerStreams, isClosed,
          closeCalls, outState, output, promptMessages, callLog, onFinishLog,
          rootSpanEnded>>

\* the caller's side of a run: abort signal and options fixed at the call
envVars == <<aborted, toolCallStreaming, onChunkAsync, toolCallsMayFail,
            maxRetries, retries>>

\* forks of the result stream
teeVars == <<teeParts, teeSource, forks>>

\* HTTP adapters
pipeVars == <<adapter, customGetErrorMessage, pipeParts, pipeEnding, pipePos,
              pipePc, response>>

adapterVars == <<teeVars, pipeVars>>

\* provider registry
registryVars == <<providers, lookup>>

\* a streamable value and the iterator reading it
streamableVars == <<rows, resolved, row, curr, done, initial, nextPc, yielded>>

clientVars == <<registryVars, streamableVars>>

\* the useAssistant hook
assistantVars == <<status, threadStatus, errorState, messages, abortControllerRef, signalAborted,
                   appendPc, onErrorCalls>>

\* one AssistantResponse
responseVars == <<processPc, sent, streamState, controllerCloseCalls, thrown>>

\* the useStreamableValue hook
hookVars == <<effect, cancelled, iteratorPc, iterated, transitions, updates>>

\* hooks and responses outside streamText
uiVars == <<assistantVars, responseVars, hookVars>>

otherVars == <<envVars, onChunkPending, adapterVars, clientVars, uiVars>>

vars == <<streamVars, otherVars>>

(***************************************************************************)
(* Parts (TextStreamPart).  All parts share one record shape.              *)
(***************************************************************************)
Part(type, id, name, td, fr, us, pm, err) ==
    [type |-> type, toolCallId |-> id, toolName |-> name, textDelta |-> td,
     finishReason |-> fr, usage |-> us, providerMetadata |-> pm, error |-> err,
     args |-> ""]

TextDelta(td) == Part("text-delta", 0, "", td, "", 0, "", "")
ToolCall(id, name) == Part("tool-call", id, name, <<>>, "", 0, "", "")
ToolResult(id, name) == Part("tool-result", id, name, <<>>, "", 0, "", "")
ErrorWith(err) == Part("error", 0, "", <<>>, "", 0, "", err)
ErrorPart == ErrorWith("error-a")
\* the error outcome of a tool call: an error part that refers to the call
ToolError(id) == Part("error", id, "", <<>>, "", 0, "", "tool-error")
\* a tool call whose arguments do not match the tool's parameter schema
InvalidArgsToolCall(id, name) == [ToolCall(id, name) EXCEPT !.args = "invalid"]
Finish(fr, us, pm) == Part("finish", 0, "", <<>>, fr, us, pm, "")
ToolCallStreamingStart(id, name) ==
    Part("tool-call-streaming-start", id, name, <<>>, "", 0, "", "")
ToolCallDelta(id, name) == Part("tool-call-delta", id, name, <<>>, "", 0, "", "")

\* the finish parts a provider emits in this model
FinishParts == {Finish("stop", 10, "meta-a"), Finish("tool-calls", 20, "meta-b")}

\* tools of the registry: one with an execute function, one without
ToolNames == {"serverTool", "clientTool"}
HasExecute(name) == name = "serverTool"
\* the tool is not in the registry, or the arguments fail validation
ToolCallFails(call) == call.toolName \notin ToolNames \/ call.args = "invalid"


(***************************************************************************)
(* createResolvablePromise: resolve() of a promise settles it once.        *)
(***************************************************************************)
Pending == <<>>
\* variant: a later resolve() replaces the value
ResolveLastWins(promise, value) == <<value>>

Resolve(promise, value) == IF promise = Pending THEN <<value>> ELSE promise

(***************************************************************************)
(* toResponseMessages: the assistant turn and the tool turn of a roundtrip.*)
(***************************************************************************)
Message(role, t, calls, results) ==
    [role |-> role, text |-> t, toolCalls |-> calls, toolResults |-> results]

toResponseMessages(t, calls, results) ==
    <<Message("assistant", t, calls, <<>>)>>
        \o (IF Len(results) > 0 THEN <<Message("tool", <<>>, <<>>, results)>> ELSE <<>>)

InitialPrompt == <<Message("user", <<>>, <<>>, <<>>)>>

(***************************************************************************)
(* State after `new DefaultStreamTextResult(...)`: the first provider call *)
(* has been made by streamText and its stream is the only inner stream.    *)
(***************************************************************************)
StreamInit ==
    /\ maxToolRoundtrips \in 0..MaxToolRoundtripsBound
    /\ currentToolRoundtrip = 0
    /\ pc = "streaming"
    /\ pendingExec = {}
    /\ nextId = 1
    /\ received = [r \in Roundtrips |-> <<>>]
    /\ text = [r \in Roundtrips |-> <<>>]
    /\ toolCalls = [r \in Roundtrips |-> <<>>]
    /\ toolResults = [r \in Roundtrips |-> <<>>]
    /\ finishReason = [r \in Roundtrips |-> <<>>]
    /\ usage = [r \in Roundtrips |-> <<>>]
    /\ providerMetadata = [r \in Roundtrips |-> <<>>]
    /\ onChunkLog = <<>>
    /\ rtOut = [r \in Roundtrips |-> <<>>]
    /\ rtState = [r \in Roundtrips |-> IF r = 0 THEN "open" ELSE "none"]
    /\ usagePromise = Pending
    /\ finishReasonPromise = Pending
    /\ textPromise = Pending
    /\ toolCallsPromise = Pending
    /\ toolResultsPromise = Pending
    /\ providerMetadataPromise = Pending
    /\ innerStreams = <<0>>
    /\ isClosed = FALSE
    /\ closeCalls = 0
    /\ outState = "open"
    /\ output = <<>>
    /\ promptMessages = InitialPrompt
    /\ callLog = <<[promptType |-> "prompt", prompt |-> InitialPrompt]>>
    /\ onFinishLog = <<>>
    /\ rootSpanEnded = 0
    /\ aborted = FALSE
    /\ onChunkPending = FALSE

\* defaults: experimental_toolCallStreaming = false, onChunk returns void
\* maxRetries = 0: retries are disabled, every doStream call is made once
NoRetries ==
    /\ maxRetries = 0
    /\ retries = [r \in Roundtrips |-> 0]

\* no fork has been obtained
TeeIdle ==
    /\ teeParts = <<>>
    /\ teeSource = <<>>
    /\ forks = <<>>

\* no HTTP adapter has been called
PipeIdle ==
    /\ adapter = "none"
    /\ customGetErrorMessage = FALSE
    /\ pipeParts = <<<<>>, <<>>>>
    /\ pipeEnding = "done"
    /\ pipePos = 0
    /\ pipePc = "idle"
    /\ response = <<<<>>, <<>>>>

\* a value of the client: typeof and a printed form
JsValue(type, repr) == [typeof |-> type, repr |-> repr]
Undefined == JsValue("undefined", "")

\* no provider is registered and no model has been looked up
RegistryIdle ==
    /\ providers = {}
    /\ lookup = [id |-> <<>>, kind |-> "none", providerId |-> <<>>,
                 modelId |-> <<>>]

\* no streamable value is being read
StreamableIdle ==
    /\ rows = <<>>
    /\ resolved = 0
    /\ row = 0
    /\ curr = Undefined
    /\ done = FALSE
    /\ initial = TRUE
    /\ nextPc = "idle"
    /\ yielded = <<>>

ClientIdle ==
    /\ RegistryIdle
    /\ StreamableIdle

MaxAppends == 2
Calls == 1..MaxAppends

\* useAssistant after its first render: no append() has been called
AssistantIdle ==
    /\ status = "awaiting_message"
    /\ threadStatus = "thread.idle"
    /\ errorState = <<>>
    /\ messages = <<>>
    /\ abortControllerRef = 0
    /\ signalAborted = [c \in Calls |-> FALSE]
    /\ appendPc = [c \in Calls |-> "idle"]
    /\ onErrorCalls = <<>>

\* no AssistantResponse has been created
ResponseIdle ==
    /\ processPc = "idle"
    /\ sent = <<>>
    /\ streamState = "readable"
    /\ controllerCloseCalls = 0
    /\ thrown = <<>>

MaxEffects == 2
Effects == 1..MaxEffects

\* useStreamableValue before its layout effect has run
HookIdle ==
    /\ effect = 0
    /\ cancelled = [e \in Effects |-> FALSE]
    /\ iteratorPc = [e \in Effects |-> "none"]
    /\ iterated = [e \in Effects |-> 0]
    /\ transitions = {}
    /\ updates = {}

UiIdle ==
    /\ AssistantIdle
    /\ ResponseIdle
    /\ HookIdle

Init ==
    /\ StreamInit
    /\ TeeIdle
    /\ PipeIdle
    /\ ClientIdle
    /\ UiIdle
    /\ toolCallStreaming = FALSE
    /\ onChunkAsync = FALSE
    /\ toolCallsMayFail = FALSE
    /\ NoRetries

(***************************************************************************)
(* createTransformedStream: transform(chunk, controller)                   *)
(***************************************************************************)
\* variant: the filter is missing
IsEmptyTextDeltaNever(chunk) == FALSE

\* "Filter out empty text deltas"
IsEmptyTextDelta(chunk) ==
    chunk.type = "text-delta" /\ Len(chunk.textDelta) = 0

\* variant: the enqueue sits inside the switch and the tool-result case lacks it
EnqueuedWithoutToolResults(chunk) ==
    IF IsEmptyTextDelta(chunk) \/ chunk.type = "tool-result" THEN <<>> ELSE <<chunk>>

\* variant: error parts are swallowed instead of forwarded
EnqueuedWithoutErrors(chunk) ==
    IF IsEmptyTextDelta(chunk) \/ chunk.type = "error" THEN <<>> ELSE <<chunk>>

\* controller.enqueue(chunk) behind the filter
Enqueued(chunk) == IF IsEmptyTextDelta(chunk) THEN <<>> ELSE <<chunk>>

\* variant: the finish case calls onChunk as well
OnChunkCalledAlsoForFinish(chunk) ==
    /\ ~IsEmptyTextDelta(chunk)
    /\ chunk.type \in {"text-delta", "tool-call", "tool-result", "finish",
                       "tool-call-streaming-start", "tool-call-delta"}

\* the switch cases that await onChunk
OnChunkCalled(chunk) ==
    /\ ~IsEmptyTextDelta(chunk)
    /\ chunk.type \in {"text-delta", "tool-call", "tool-result",
                       "tool-call-streaming-start", "tool-call-delta"}

\* case 'finish': "resolve promises that can be resolved now"
ResolveOnFinish(chunk, r) ==
    IF chunk.type = "finish"
    THEN /\ usagePromise' = Resolve(usagePromise, chunk.usage)
         /\ finishReasonPromise' = Resolve(finishReasonPromise, chunk.finishReason)
         /\ textPromise' = Resolve(textPromise, text[r])
         /\ toolCallsPromise' = Resolve(toolCallsPromise, r)
         /\ providerMetadataPromise' =
                Resolve(providerMetadataPromise, chunk.providerMetadata)
    ELSE UNCHANGED <<usagePromise, finishReasonPromise, textPromise,
                     toolCallsPromise, providerMetadataPromise>>

\* variant: onChunk is called without await
OnChunkNotAwaited(chunk) == pc' = pc

\* `await onChunk?.({ chunk })`: transform() stays suspended until the
\* returned promise settles
AwaitOnChunk(chunk) ==
    pc' = IF OnChunkCalled(chunk) /\ onChunkAsync THEN "awaitOnChunk" ELSE pc

transform(chunk) ==
    LET r == currentToolRoundtrip IN
    /\ pc = "streaming"
    /\ received' = [received EXCEPT ![r] = Append(@, chunk)]
    /\ rtOut' = [rtOut EXCEPT ![r] = @ \o Enqueued(chunk)]
    /\ text' = [text EXCEPT ![r] =
                   IF chunk.type = "text-delta" THEN @ \o chunk.textDelta ELSE @]
    /\ toolCalls' = [toolCalls EXCEPT ![r] =
                        IF chunk.type = "tool-call" THEN Append(@, chunk) ELSE @]
    /\ toolResults' = [toolResults EXCEPT ![r] =
                          IF chunk.type = "tool-result" THEN Append(@, chunk) ELSE @]
    /\ usage' = [usage EXCEPT ![r] =
                    IF chunk.type = "finish" THEN <<chunk.usage>> ELSE @]
    /\ finishReason' = [finishReason EXCEPT ![r] =
                           IF chunk.type = "finish" THEN <<chunk.finishReason>> ELSE @]
    /\ providerMetadata' = [providerMetadata EXCEPT ![r] =
                               IF chunk.type = "finish"
                               THEN <<chunk.providerMetadata>> ELSE @]
    /\ ResolveOnFinish(chunk, r)
    /\ onChunkLog' = IF OnChunkCalled(chunk) THEN Append(onChunkLog, chunk)
                     ELSE onChunkLog
    /\ onChunkPending' = (OnChunkCalled(chunk) /\ onChunkAsync)
    /\ AwaitOnChunk(chunk)
    /\ UNCHANGED <<envVars, adapterVars, clientVars, uiVars>>
    /\ UNCHANGED <<maxToolRoundtrips, currentToolRoundtrip, rtState,
                   toolResultsPromise, innerStreams, isClosed, closeCalls,
                   outState, output, promptMessages, callLog, onFinishLog,
                   rootSpanEnded>>

(***************************************************************************)
(* createTransformedStream: flush(controller)                              *)
(***************************************************************************)
\* usage ?? { promptTokens: NaN, completionTokens: NaN, totalTokens: NaN }
finalUsage(r) == IF usage[r] = <<>> THEN NaN ELSE usage[r][1]

\* finishReason ?? 'unknown'
finalFinishReason(r) == IF finishReason[r] = <<>> THEN "unknown" ELSE finishReason[r][1]

\* variant: the cap is compared with <= instead of <
ContinuationPredicateCapInclusive(r) ==
    /\ Len(toolCalls[r]) > 0
    /\ Len(toolResults[r]) = Len(toolCalls[r])
    /\ r <= maxToolRoundtrips

\* variant: the results of the tool calls are not looked at
ContinuationPredicateIgnoresResults(r) ==
    /\ Len(toolCalls[r]) > 0
    /\ r < maxToolRoundtrips

\* variant: only the calls of tools with an execute function need a result
ContinuationPredicateCountsExecutable(r) ==
    /\ Len(toolCalls[r]) > 0
    /\ Len(toolResults[r]) =
           Len(SelectSeq(toolCalls[r], LAMBDA c : HasExecute(c.toolName)))
    /\ r < maxToolRoundtrips

\* "check if another tool roundtrip is needed"
ContinuationPredicate(r) ==
    /\ Len(toolCalls[r]) > 0
    /\ Len(toolResults[r]) = Len(toolCalls[r])
    /\ r < maxToolRoundtrips

\* the event object handed to onFinish
OnFinishEvent(r) ==
    [finishReason |-> finalFinishReason(r),
     usage |-> finalUsage(r),
     text |-> text[r],
     toolCalls |-> toolCalls[r],
     toolResults |-> toolResults[r],
     providerMetadata |-> providerMetadata[r]]

\* closeStitchableStream(): the output ends at once when nothing is queued
CloseStitchableStream ==
    /\ isClosed' = TRUE
    /\ closeCalls' = closeCalls + 1
    /\ outState' = IF innerStreams = <<>> /\ outState = "open" THEN "closed" ELSE outState

\* variant: onFinish is called at every flush, also when the roundtrip continues
FlushContinueInvokesOnFinish(r) ==
    /\ promptMessages' =
           promptMessages \o toResponseMessages(text[r], toolCalls[r], toolResults[r])
    /\ callLog' = Append(callLog, [promptType |-> "messages", prompt |-> promptMessages'])
    /\ onFinishLog' = Append(onFinishLog, OnFinishEvent(r))
    /\ pc' = "awaitStartRoundtrip"
    /\ UNCHANGED <<isClosed, closeCalls, outState, toolResultsPromise>>

\* variant: the continue branch closes the stitchable stream as well
FlushContinueCloses(r) ==
    /\ promptMessages' =
           promptMessages \o toResponseMessages(text[r], toolCalls[r], toolResults[r])
    /\ callLog' = Append(callLog, [promptType |-> "messages", prompt |-> promptMessages'])
    /\ CloseStitchableStream
    /\ pc' = "awaitStartRoundtrip"
    /\ UNCHANGED <<toolResultsPromise, onFinishLog>>

\* variant: the next call gets the roundtrip's new messages without the history
FlushContinueSendsNewMessagesOnly(r) ==
    /\ promptMessages' = toResponseMessages(text[r], toolCalls[r], toolResults[r])
    /\ callLog' = Append(callLog, [promptType |-> "messages", prompt |-> promptMessages'])
    /\ pc' = "awaitStartRoundtrip"
    /\ UNCHANGED <<isClosed, closeCalls, outState, toolResultsPromise, onFinishLog>>

\* continue branch up to `await startRoundtrip(...)`
FlushContinue(r) ==
    /\ promptMessages' =
           promptMessages \o toResponseMessages(text[r], toolCalls[r], toolResults[r])
    /\ callLog' = Append(callLog, [promptType |-> "messages", prompt |-> promptMessages'])
    /\ pc' = "awaitStartRoundtrip"
    /\ UNCHANGED <<isClosed, closeCalls, outState, toolResultsPromise, onFinishLog>>

\* terminal branch up to `await onFinish?.(...)`
FlushTerminal(r) ==
    /\ CloseStitchableStream
    /\ toolResultsPromise' = Resolve(toolResultsPromise, r)
    /\ onFinishLog' = Append(onFinishLog, OnFinishEvent(r))
    /\ pc' = "awaitOnFinish"
    /\ UNCHANGED <<promptMessages, callLog>>

\* the roundtrip's input stream has ended: every tool execution has settled
flush ==
    LET r == currentToolRoundtrip IN
    /\ pc = "streaming"
    /\ pendingExec = {}
    /\ IF ContinuationPredicate(r) THEN FlushContinue(r) ELSE FlushTerminal(r)
    /\ UNCHANGED otherVars
    /\ UNCHANGED <<maxToolRoundtrips, currentToolRoundtrip, pendingExec, nextId,
                   received, text, toolCalls, toolResults, finishReason, usage,
                   providerMetadata, onChunkLog, rtOut, rtState, usagePromise,
                   finishReasonPromise, textPromise, toolCallsPromise,
                   providerMetadataPromise, innerStreams, output, rootSpanEnded>>

\* startRoundtrip resolved: addStream(createTransformedStream({...,
\* currentToolRoundtrip: currentToolRoundtrip + 1})), then flush returns
StartRoundtripReturns ==
    LET r == currentToolRoundtrip IN
    /\ pc = "awaitStartRoundtrip"
    /\ innerStreams' = Append(innerStreams, r + 1)
    /\ rtState' = [rtState EXCEPT ![r] = "closed", ![r + 1] = "open"]
    /\ currentToolRoundtrip' = r + 1
    /\ pc' = "streaming"
    /\ UNCHANGED otherVars
    /\ UNCHANGED <<maxToolRoundtrips, pendingExec, nextId, received, text,
                   toolCalls, toolResults, finishReason, usage, providerMetadata,
                   onChunkLog, rtOut, usagePromise, finishReasonPromise,
                   textPromise, toolCallsPromise, toolResultsPromise,
                   providerMetadataPromise, isClosed, closeCalls, outState,
                   output, promptMessages, callLog, onFinishLog, rootSpanEnded>>

\* variant: flush swallows the rejection and leaves its stream open
StartRoundtripFailsSilently ==
    /\ pc = "awaitStartRoundtrip"
    /\ pc' = "failed"
    /\ UNCHANGED otherVars
    /\ UNCHANGED <<maxToolRoundtrips, currentToolRoundtrip, pendingExec, nextId,
                   received, text, toolCalls, toolResults, finishReason, usage,
                   providerMetadata, onChunkLog, rtOut, rtState, usagePromise,
                   finishReasonPromise, textPromise, toolCallsPromise,
                   toolResultsPromise, providerMetadataPromise, innerStreams,
                   isClosed, closeCalls, outState, output, promptMessages,
                   callLog, onFinishLog, rootSpanEnded>>

\* startRoundtrip rejected: flush throws, which errors the roundtrip's stream
StartRoundtripFails ==
    LET r == currentToolRoundtrip IN
    /\ pc = "awaitStartRoundtrip"
    /\ rtState' = [rtState EXCEPT ![r] = "errored"]
    /\ rtOut' = [rtOut EXCEPT ![r] = <<>>]
    /\ pc' = "failed"
    /\ UNCHANGED otherVars
    /\ UNCHANGED <<maxToolRoundtrips, currentToolRoundtrip, pendingExec, nextId,
                   received, text, toolCalls, toolResults, finishReason, usage,
                   providerMetadata, onChunkLog, usagePromise,
                   finishReasonPromise, textPromise, toolCallsPromise,
                   toolResultsPromise, providerMetadataPromise, innerStreams,
                   isClosed, closeCalls, outState, output, promptMessages,
                   callLog, onFinishLog, rootSpanEnded>>

\* onFinish settled without an error: finally { rootSpan.end() }, flush returns
OnFinishReturns ==
    LET r == currentToolRoundtrip IN
    /\ pc = "awaitOnFinish"
    /\ rootSpanEnded' = rootSpanEnded + 1
    /\ rtState' = [rtState EXCEPT ![r] = "closed"]
    /\ pc' = "terminal"
    /\ UNCHANGED otherVars
    /\ UNCHANGED <<maxToolRoundtrips, currentToolRoundtrip, pendingExec, nextId,
                   received, text, toolCalls, toolResults, finishReason, usage,
                   providerMetadata, onChunkLog, rtOut, usagePromise,
                   finishReasonPromise, textPromise, toolCallsPromise,
                   toolResultsPromise, providerMetadataPromise, innerStreams,
                   isClosed, closeCalls, outState, output, promptMessages,
                   callLog, onFinishLog>>

\* variant: rootSpan.end() sits after the await instead of in finally
OnFinishThrowsSpanLeftOpen ==
    LET r == currentToolRoundtrip IN
    /\ pc = "awaitOnFinish"
    /\ rtState' = [rtState EXCEPT ![r] = "errored"]
    /\ rtOut' = [rtOut EXCEPT ![r] = <<>>]
    /\ pc' = "terminal"
    /\ UNCHANGED otherVars
    /\ UNCHANGED <<maxToolRoundtrips, currentToolRoundtrip, pendingExec, nextId,
                   received, text, toolCalls, toolResults, finishReason, usage,
                   providerMetadata, onChunkLog, usagePromise,
                   finishReasonPromise, textPromise, toolCallsPromise,
                   toolResultsPromise, providerMetadataPromise, innerStreams,
                   isClosed, closeCalls, outState, output, promptMessages,
                   callLog, onFinishLog, rootSpanEnded>>

\* onFinish threw or rejected: catch { controller.error(error) } finally { rootSpan.end() }
OnFinishThrows ==
    LET r == currentToolRoundtrip IN
    /\ pc = "awaitOnFinish"
    /\ rootSpanEnded' = rootSpanEnded + 1
    /\ rtState' = [rtState EXCEPT ![r] = "errored"]
    /\ rtOut' = [rtOut EXCEPT ![r] = <<>>]
    /\ pc' = "terminal"
    /\ UNCHANGED otherVars
    /\ UNCHANGED <<maxToolRoundtrips, currentToolRoundtrip, pendingExec, nextId,
                   received, text, toolCalls, toolResults, finishReason, usage,
                   providerMetadata, onChunkLog, usagePromise,
                   finishReasonPromise, textPromise, toolCallsPromise,
                   toolResultsPromise, providerMetadataPromise, innerStreams,
                   isClosed, closeCalls, outState, output, promptMessages,
                   callLog, onFinishLog>>

(***************************************************************************)
(* The input of a roundtrip's transform: the provider's parts as they leave *)
(* runToolsTransformation.  A tool-call for a tool with an execute function *)
(* starts an execution; the execution later yields a tool-result with the   *)
(* same toolCallId, or an error part when execute() fails.  The stream ends *)
(* only after every execution has settled.                                  *)
(***************************************************************************)
RECURSIVE PartsDelivered(_)
PartsDelivered(r) ==
    Len(received[r]) + (IF r = 0 THEN 0 ELSE PartsDelivered(r - 1))

PartsLeft == MaxParts - PartsDelivered(MaxToolRoundtripsBound)

FinishSeen(r) == \E i \in 1..Len(received[r]) : received[r][i].type = "finish"

\* the n-th part of a run carries the text <<n>>, so that every non-empty
\* text delta of a run is distinguishable
UnabortedChunks ==
    {TextDelta(<<>>), TextDelta(<<PartsDelivered(MaxToolRoundtripsBound) + 1>>), ErrorPart}
        \cup {ToolCall(nextId, name) : name \in ToolNames}
        \cup (IF FinishSeen(currentToolRoundtrip) THEN {} ELSE FinishParts)
        \cup (IF toolCallStreaming
              THEN {ToolCallStreamingStart(nextId, name) : name \in ToolNames}
              ELSE {})
        \cup (IF toolCallsMayFail
              THEN {ToolCall(nextId, "unknownTool"),
                    InvalidArgsToolCall(nextId, "serverTool")}
              ELSE {})

\* the streaming-start parts of the tool call that is being streamed: its
\* deltas and the assembled tool-call follow before anything else
StreamingStarts ==
    LET rec == received[currentToolRoundtrip] IN
    {rec[i] : i \in {j \in 1..Len(rec) :
                        /\ rec[j].type = "tool-call-streaming-start"
                        /\ rec[j].toolCallId = nextId}}

\* after the abort signal has fired the provider's stream only reports the
\* failure and ends
ProviderChunks ==
    IF aborted THEN {ErrorPart}
    ELSE IF StreamingStarts # {}
    THEN UNION {{ToolCallDelta(st.toolCallId, st.toolName),
                 ToolCall(st.toolCallId, st.toolName)} : st \in StreamingStarts}
    ELSE UnabortedChunks

ToolCallOf(id) ==
    LET calls == toolCalls[currentToolRoundtrip]
        i == CHOOSE i \in 1..Len(calls) : calls[i].toolCallId = id
    IN calls[i]

ToolNameOf(id) == ToolCallOf(id).toolName

\* the provider emits its next part
ProviderPart ==
    \E chunk \in ProviderChunks :
        LET starts == /\ chunk.type = "tool-call"
                      /\ (ToolCallFails(chunk) \/ HasExecute(chunk.toolName))
        IN
        /\ PartsLeft >= 1 + Cardinality(pendingExec) + (IF starts THEN 1 ELSE 0)
        /\ transform(chunk)
        /\ nextId' = IF chunk.type = "tool-call" THEN nextId + 1 ELSE nextId
        /\ pendingExec' = IF starts THEN pendingExec \cup {chunk.toolCallId}
                          ELSE pendingExec

\* variant: a result may enter the stream for a call that is still to come
ToolExecutionResolvesEarly ==
    \E id \in pendingExec \cup {nextId} :
        /\ transform(ToolResult(id, "serverTool"))
        /\ pendingExec' = pendingExec \ {id}
        /\ UNCHANGED nextId

\* a tool execution resolves: its tool-result part enters the stream
ToolExecutionResolves ==
    \E id \in pendingExec :
        /\ ~ToolCallFails(ToolCallOf(id))
        /\ transform(ToolResult(id, ToolNameOf(id)))
        /\ pendingExec' = pendingExec \ {id}
        /\ UNCHANGED nextId

\* variant: the error outcome does not refer to the call
ToolExecutionRejectsUncorrelated ==
    \E id \in pendingExec :
        /\ transform(ErrorPart)
        /\ pendingExec' = pendingExec \ {id}
        /\ UNCHANGED nextId

\* variant: the failure of a tool call fails the roundtrip's stream
ToolExecutionRejectsFailsStream ==
    \E id \in pendingExec :
        /\ pc = "streaming"
        /\ pendingExec' = pendingExec \ {id}
        /\ pc' = "failed"
        /\ rtState' = [rtState EXCEPT ![currentToolRoundtrip] = "errored"]
        /\ rtOut' = [rtOut EXCEPT ![currentToolRoundtrip] = <<>>]
        /\ UNCHANGED otherVars
        /\ UNCHANGED <<maxToolRoundtrips, currentToolRoundtrip, nextId, received,
                       text, toolCalls, toolResults, finishReason, usage,
                       providerMetadata, onChunkLog, usagePromise,
                       finishReasonPromise, textPromise, toolCallsPromise,
                       toolResultsPromise, providerMetadataPromise, innerStreams,
                       isClosed, closeCalls, outState, output, promptMessages,
                       callLog, onFinishLog, rootSpanEnded>>

\* a tool execution rejects, or the call failed the lookup or the validation:
\* an error part for that call enters the stream instead of a result
ToolExecutionRejects ==
    \E id \in pendingExec :
        /\ transform(ToolError(id))
        /\ pendingExec' = pendingExec \ {id}
        /\ UNCHANGED nextId

(***************************************************************************)
(* createStitchableStream: the consumer's pull on the logical output.      *)
(***************************************************************************)
\* the inner stream at the head of the queue has a part: emit it
PullPart ==
    /\ outState = "open"
    /\ innerStreams # <<>>
    /\ LET h == Head(innerStreams) IN
        /\ rtOut[h] # <<>>
        /\ output' = Append(output, [roundtrip |-> h, part |-> Head(rtOut[h])])
        /\ rtOut' = [rtOut EXCEPT ![h] = Tail(@)]
    /\ UNCHANGED otherVars
    /\ UNCHANGED <<maxToolRoundtrips, currentToolRoundtrip, pc, pendingExec,
                   nextId, received, text, toolCalls, toolResults, finishReason,
                   usage, providerMetadata, onChunkLog, rtState, usagePromise,
                   finishReasonPromise, textPromise, toolCallsPromise,
                   toolResultsPromise, providerMetadataPromise, innerStreams,
                   isClosed, closeCalls, outState, promptMessages, callLog,
                   onFinishLog, rootSpanEnded>>

\* variant: the output completes as soon as no added stream is left
PullDoneCompletesWhenEmpty ==
    /\ outState = "open"
    /\ innerStreams # <<>>
    /\ LET h == Head(innerStreams) IN
        /\ rtOut[h] = <<>>
        /\ rtState[h] = "closed"
    /\ innerStreams' = Tail(innerStreams)
    /\ outState' = IF innerStreams' = <<>> THEN "closed" ELSE outState
    /\ UNCHANGED otherVars
    /\ UNCHANGED <<maxToolRoundtrips, currentToolRoundtrip, pc, pendingExec,
                   nextId, received, text, toolCalls, toolResults, finishReason,
                   usage, providerMetadata, onChunkLog, rtOut, rtState,
                   usagePromise, finishReasonPromise, textPromise,
                   toolCallsPromise, toolResultsPromise, providerMetadataPromise,
                   isClosed, closeCalls, output, promptMessages, callLog,
                   onFinishLog, rootSpanEnded>>

\* the inner stream at the head of the queue is done: advance to the next
PullDone ==
    /\ outState = "open"
    /\ innerStreams # <<>>
    /\ LET h == Head(innerStreams) IN
        /\ rtOut[h] = <<>>
        /\ rtState[h] = "closed"
    /\ innerStreams' = Tail(innerStreams)
    /\ outState' = IF isClosed /\ innerStreams' = <<>> THEN "closed" ELSE outState
    /\ UNCHANGED otherVars
    /\ UNCHANGED <<maxToolRoundtrips, currentToolRoundtrip, pc, pendingExec,
                   nextId, received, text, toolCalls, toolResults, finishReason,
                   usage, providerMetadata, onChunkLog, rtOut, rtState,
                   usagePromise, finishReasonPromise, textPromise,
                   toolCallsPromise, toolResultsPromise, providerMetadataPromise,
                   isClosed, closeCalls, output, promptMessages, callLog,
                   onFinishLog, rootSpanEnded>>

\* the inner stream at the head of the queue failed: the output fails with it
PullError ==
    /\ outState = "open"
    /\ innerStreams # <<>>
    /\ rtState[Head(innerStreams)] = "errored"
    /\ innerStreams' = Tail(innerStreams)
    /\ outState' = "errored"
    /\ UNCHANGED otherVars
    /\ UNCHANGED <<maxToolRoundtrips, currentToolRoundtrip, pc, pendingExec,
                   nextId, received, text, toolCalls, toolResults, finishReason,
                   usage, providerMetadata, onChunkLog, rtOut, rtState,
                   usagePromise, finishReasonPromise, textPromise,
                   toolCallsPromise, toolResultsPromise, providerMetadataPromise,
                   isClosed, closeCalls, output, promptMessages, callLog,
                   onFinishLog, rootSpanEnded>>

\* the caller aborts while a roundtrip is streaming
Abort ==
    /\ pc = "streaming"
    /\ ~aborted
    /\ aborted' = TRUE
    /\ UNCHANGED <<toolCallStreaming, onChunkAsync, toolCallsMayFail,
                   maxRetries, retries, onChunkPending, adapterVars,
                   clientVars, uiVars>>
    /\ UNCHANGED <<maxToolRoundtrips, currentToolRoundtrip, pc, pendingExec,
                   nextId, received, text, toolCalls, toolResults, finishReason,
                   usage, providerMetadata, onChunkLog, rtOut, rtState,
                   usagePromise, finishReasonPromise, textPromise,
                   toolCallsPromise, toolResultsPromise, providerMetadataPromise,
                   innerStreams, isClosed, closeCalls, outState, output,
                   promptMessages, callLog, onFinishLog, rootSpanEnded>>

\* the promise returned by onChunk fulfils: transform() returns
OnChunkSettles ==
    /\ onChunkPending
    /\ onChunkPending' = FALSE
    /\ pc' = IF pc = "awaitOnChunk" THEN "streaming" ELSE pc
    /\ UNCHANGED <<envVars, adapterVars, clientVars, uiVars>>
    /\ UNCHANGED <<maxToolRoundtrips, currentToolRoundtrip, pendingExec,
                   nextId, received, text, toolCalls, toolResults, finishReason,
                   usage, providerMetadata, onChunkLog, rtOut, rtState,
                   usagePromise, finishReasonPromise, textPromise,
                   toolCallsPromise, toolResultsPromise, providerMetadataPromise,
                   innerStreams, isClosed, closeCalls, outState, output,
                   promptMessages, callLog, onFinishLog, rootSpanEnded>>

\* the promise returned by onChunk rejects: transform() throws, which errors
\* the roundtrip's stream
OnChunkRejects ==
    LET r == currentToolRoundtrip IN
    /\ onChunkPending
    /\ pc = "awaitOnChunk"
    /\ onChunkPending' = FALSE
    /\ pc' = "failed"
    /\ rtState' = [rtState EXCEPT ![r] = "errored"]
    /\ rtOut' = [rtOut EXCEPT ![r] = <<>>]
    /\ UNCHANGED <<envVars, adapterVars, clientVars, uiVars>>
    /\ UNCHANGED <<maxToolRoundtrips, currentToolRoundtrip, pendingExec,
                   nextId, received, text, toolCalls, toolResults, finishReason,
                   usage, providerMetadata, onChunkLog, usagePromise,
                   finishReasonPromise, textPromise, toolCallsPromise,
                   toolResultsPromise, providerMetadataPromise, innerStreams,
                   isClosed, closeCalls, outState, output, promptMessages,
                   callLog, onFinishLog, rootSpanEnded>>

Next ==
    \/ ProviderPart
    \/ ToolExecutionResolves
    \/ ToolExecutionRejects
    \/ flush
    \/ StartRoundtripReturns
    \/ StartRoundtripFails
    \/ OnFinishReturns
    \/ OnFinishThrows
    \/ PullPart
    \/ PullDone
    \/ PullError

Spec == Init /\ [][Next]_vars

\* runs in which the caller may abort
NextAbort == Next \/ Abort

SpecAbort == Init /\ [][NextAbort]_vars

\* runs with an onChunk callback that returns a promise
InitOnChunk ==
    /\ StreamInit
    /\ TeeIdle
    /\ PipeIdle
    /\ ClientIdle
    /\ UiIdle
    /\ toolCallStreaming = FALSE
    /\ onChunkAsync = TRUE
    /\ toolCallsMayFail = FALSE
    /\ NoRetries

NextOnChunk == Next \/ OnChunkSettles \/ OnChunkRejects

SpecOnChunk == InitOnChunk /\ [][NextOnChunk]_vars

\* runs with experimental_toolCallStreaming enabled
InitToolCallStreaming ==
    /\ StreamInit
    /\ TeeIdle
    /\ PipeIdle
    /\ ClientIdle
    /\ UiIdle
    /\ toolCallStreaming = TRUE
    /\ onChunkAsync = FALSE
    /\ toolCallsMayFail = FALSE
    /\ NoRetries

SpecToolCallStreaming == InitToolCallStreaming /\ [][Next]_vars

\* runs in which the provider may call unknown tools or pass bad arguments
InitToolErrors ==
    /\ StreamInit
    /\ TeeIdle
    /\ PipeIdle
    /\ ClientIdle
    /\ UiIdle
    /\ toolCallStreaming = FALSE
    /\ onChunkAsync = FALSE
    /\ toolCallsMayFail = TRUE
    /\ NoRetries

SpecToolErrors == InitToolErrors /\ [][Next]_vars

\* runs with one continuation allowed whose consumer keeps reading the result
InitReading ==
    /\ Init
    /\ maxToolRoundtrips = 1

SpecReading ==
    /\ InitReading
    /\ [][Next]_vars
    /\ WF_vars(PullPart)
    /\ WF_vars(PullDone)
    /\ WF_vars(PullError)

\* runs in which setting up a provider call may fail and be retried
MaxRetriesBound == 2

\* variant: an error part of the streaming response is retried as well
DoStreamRetryWhileStreaming ==
    LET r == currentToolRoundtrip IN
    /\ \/ /\ pc = "awaitStartRoundtrip"
          /\ retries[r + 1] < maxRetries
          /\ retries' = [retries EXCEPT ![r + 1] = @ + 1]
       \/ /\ pc = "streaming"
          /\ \E i \in 1..Len(received[r]) : received[r][i].type = "error"
          /\ retries[r] < maxRetries
          /\ retries' = [retries EXCEPT ![r] = @ + 1]
    /\ UNCHANGED <<aborted, toolCallStreaming, onChunkAsync, toolCallsMayFail,
                   maxRetries, onChunkPending, adapterVars, clientVars, uiVars>>
    /\ UNCHANGED streamVars

\* retry(() => ... model.doStream(...)): the call rejected with an error that
\* can be retried and retry() makes it again, up to maxRetries times
DoStreamRetry ==
    LET r == currentToolRoundtrip IN
    /\ pc = "awaitStartRoundtrip"
    /\ retries[r + 1] < maxRetries
    /\ retries' = [retries EXCEPT ![r + 1] = @ + 1]
    /\ UNCHANGED <<aborted, toolCallStreaming, onChunkAsync, toolCallsMayFail,
                   maxRetries, onChunkPending, adapterVars, clientVars, uiVars>>
    /\ UNCHANGED streamVars

\* the first call was set up, perhaps after retries, before the result exists
InitRetry ==
    /\ StreamInit
    /\ TeeIdle
    /\ PipeIdle
    /\ ClientIdle
    /\ UiIdle
    /\ toolCallStreaming = FALSE
    /\ onChunkAsync = FALSE
    /\ toolCallsMayFail = FALSE
    /\ maxToolRoundtrips = 1
    /\ maxRetries = MaxRetriesBound
    /\ \E n \in {0, maxRetries} :
          retries = [r \in Roundtrips |-> IF r = 0 THEN n ELSE 0]

NextRetry == Next \/ DoStreamRetry

SpecRetry == InitRetry /\ [][NextRetry]_vars

(***************************************************************************)
(* createStitchableStream on its own: a caller adds inner streams and      *)
(* closes whenever it likes, a consumer pulls the output.                  *)
(***************************************************************************)
\* what an added inner stream may carry
InnerContents ==
    {<<>>, <<TextDelta(<<1>>)>>, <<TextDelta(<<1>>), TextDelta(<<2>>)>>}

\* inner streams not added yet
NotAdded == {r \in Roundtrips : rtState[r] = "none"}

\* addStream(innerStream)
addStream ==
    /\ ~isClosed
    /\ NotAdded # {}
    /\ LET r == CHOOSE n \in NotAdded : \A m \in NotAdded : n <= m IN
       \E content \in InnerContents :
           /\ innerStreams' = Append(innerStreams, r)
           /\ rtState' = [rtState EXCEPT ![r] = "open"]
           /\ received' = [received EXCEPT ![r] = content]
           /\ rtOut' = [rtOut EXCEPT ![r] = content]
    /\ UNCHANGED otherVars
    /\ UNCHANGED <<maxToolRoundtrips, currentToolRoundtrip, pc, pendingExec,
                   nextId, text, toolCalls, toolResults, finishReason, usage,
                   providerMetadata, onChunkLog, usagePromise,
                   finishReasonPromise, textPromise, toolCallsPromise,
                   toolResultsPromise, providerMetadataPromise, isClosed,
                   closeCalls, outState, output, promptMessages, callLog,
                   onFinishLog, rootSpanEnded>>

\* an inner stream signals completion
InnerStreamDone ==
    \E r \in Roundtrips :
        /\ rtState[r] = "open"
        /\ rtState' = [rtState EXCEPT ![r] = "closed"]
        /\ UNCHANGED otherVars
        /\ UNCHANGED <<maxToolRoundtrips, currentToolRoundtrip, pc, pendingExec,
                       nextId, received, text, toolCalls, toolResults,
                       finishReason, usage, providerMetadata, onChunkLog, rtOut,
                       usagePromise, finishReasonPromise, textPromise,
                       toolCallsPromise, toolResultsPromise,
                       providerMetadataPromise, innerStreams, isClosed,
                       closeCalls, outState, output, promptMessages, callLog,
                       onFinishLog, rootSpanEnded>>

\* close()
close ==
    /\ ~isClosed
    /\ CloseStitchableStream
    /\ UNCHANGED otherVars
    /\ UNCHANGED <<maxToolRoundtrips, currentToolRoundtrip, pc, pendingExec,
                   nextId, received, text, toolCalls, toolResults, finishReason,
                   usage, providerMetadata, onChunkLog, rtOut, rtState,
                   usagePromise, finishReasonPromise, textPromise,
                   toolCallsPromise, toolResultsPromise, providerMetadataPromise,
                   innerStreams, output, promptMessages, callLog, onFinishLog,
                   rootSpanEnded>>

\* state after createStitchableStream(): nothing added, not closed
InitStitch ==
    /\ maxToolRoundtrips = 0
    /\ currentToolRoundtrip = 0
    /\ pc = "detached"
    /\ pendingExec = {}
    /\ nextId = 1
    /\ received = [r \in Roundtrips |-> <<>>]
    /\ text = [r \in Roundtrips |-> <<>>]
    /\ toolCalls = [r \in Roundtrips |-> <<>>]
    /\ toolResults = [r \in Roundtrips |-> <<>>]
    /\ finishReason = [r \in Roundtrips |-> <<>>]
    /\ usage = [r \in Roundtrips |-> <<>>]
    /\ providerMetadata = [r \in Roundtrips |-> <<>>]
    /\ onChunkLog = <<>>
    /\ rtOut = [r \in Roundtrips |-> <<>>]
    /\ rtState = [r \in Roundtrips |-> "none"]
    /\ usagePromise = Pending
    /\ finishReasonPromise = Pending
    /\ textPromise = Pending
    /\ toolCallsPromise = Pending
    /\ toolResultsPromise = Pending
    /\ providerMetadataPromise = Pending
    /\ innerStreams = <<>>
    /\ isClosed = FALSE
    /\ closeCalls = 0
    /\ outState = "open"
    /\ output = <<>>
    /\ promptMessages = InitialPrompt
    /\ callLog = <<>>
    /\ onFinishLog = <<>>
    /\ rootSpanEnded = 0
    /\ aborted = FALSE
    /\ onChunkPending = FALSE
    /\ toolCallStreaming = FALSE
    /\ onChunkAsync = FALSE
    /\ toolCallsMayFail = FALSE
    /\ NoRetries
    /\ TeeIdle
    /\ PipeIdle
    /\ ClientIdle
    /\ UiIdle

NextStitch ==
    \/ addStream
    \/ InnerStreamDone
    \/ close
    \/ PullPart
    \/ PullDone

SpecStitch == InitStitch /\ [][NextStitch]_vars

(***************************************************************************)
(* Forks: teeStream(), textStream and fullStream.  The original stream     *)
(* carries a finite sequence of parts; every fork is branch 1 of a tee of  *)
(* the current original stream, whose branch 2 becomes the original stream.*)
(***************************************************************************)
SeqsUpTo(S, n) == UNION {[1..k -> S] : k \in 0..n}

TeeTypes == {"text-delta", "error", "finish"}

\* the i-th part of a forked stream: each text-delta and each error part
\* carries a value of its own
TeePart(type, i) ==
    CASE type = "text-delta" -> TextDelta(<<i>>)
      [] type = "error" -> ErrorWith("error-" \o ToString(i))
      [] type = "finish" -> Finish("stop", 10, "meta-a")

TeeSequences ==
    UNION {{[i \in 1..k |-> TeePart(types[i], i)] : types \in [1..k -> TeeTypes]} :
              k \in 0..MaxTeeParts}

\* variant: the full view drops error parts
fullStreamTransformDropsErrors(chunk) ==
    [enqueue |-> IF chunk.type = "error" THEN <<>> ELSE <<chunk>>, error |-> FALSE]

\* fullStream's transformer: controller.enqueue(chunk)
fullStreamTransform(chunk) == [enqueue |-> <<chunk>>, error |-> FALSE]

\* variant: the text view skips error parts
textStreamTransformSkipsErrors(chunk) ==
    [enqueue |-> IF chunk.type = "text-delta" THEN <<chunk.textDelta>> ELSE <<>>,
     error |-> FALSE]

\* textStream's transformer: text-delta -> enqueue(chunk.textDelta),
\* error -> controller.error(chunk.error), other parts dropped
textStreamTransform(chunk) ==
    [enqueue |-> IF chunk.type = "text-delta" THEN <<chunk.textDelta>> ELSE <<>>,
     error |-> chunk.type = "error"]

ForkTransform(kind, chunk) ==
    IF kind = "textStream" THEN textStreamTransform(chunk)
    ELSE fullStreamTransform(chunk)

\* teeStream(): [stream1, stream2] = originalStream.tee(); stream2 replaces the
\* original stream and stream1 goes through the view's transformer
teeStream(kind) ==
    /\ Len(forks) < MaxForks
    /\ forks' = Append(forks, [kind |-> kind, stream1 |-> <<>>, stream2 |-> <<>>,
                               ended |-> FALSE, state |-> "open",
                               yielded |-> <<>>, error |-> ""])
    /\ UNCHANGED <<teeParts, teeSource>>
    /\ UNCHANGED <<streamVars, envVars, onChunkPending, pipeVars, clientVars, uiVars>>

\* the k-th tee reads one chunk of its source and enqueues it in both branches
\* (a cancelled branch takes no chunks), or sees the end of its source
TeePull(k) ==
    LET up == IF k = 1 THEN teeSource ELSE forks[k - 1].stream2
        upEnded == IF k = 1 THEN TRUE ELSE forks[k - 1].ended
        f == forks[k]
        fed == [f EXCEPT !.stream1 = IF f.state = "errored" THEN <<>>
                                     ELSE Append(@, Head(up)),
                         !.stream2 = Append(@, Head(up))]
    IN
    /\ ~f.ended
    /\ IF up # <<>>
       THEN /\ teeSource' = IF k = 1 THEN Tail(teeSource) ELSE teeSource
            /\ forks' = IF k = 1 THEN [forks EXCEPT ![k] = fed]
                        ELSE [forks EXCEPT ![k] = fed,
                                           ![k - 1].stream2 = Tail(@)]
       ELSE /\ upEnded
            /\ forks' = [forks EXCEPT ![k].ended = TRUE]
            /\ UNCHANGED teeSource
    /\ UNCHANGED teeParts
    /\ UNCHANGED <<streamVars, envVars, onChunkPending, pipeVars, clientVars, uiVars>>

\* the consumer of fork k reads: the view's transformer takes the chunks of
\* stream1 one by one, as the consumer asks for them
ForkRead(k) ==
    LET f == forks[k] IN
    /\ f.state = "open"
    /\ IF f.stream1 # <<>>
       THEN LET chunk == Head(f.stream1)
                t == ForkTransform(f.kind, chunk)
            IN forks' = [forks EXCEPT ![k] =
                   IF t.error
                   THEN [f EXCEPT !.state = "errored", !.error = chunk.error,
                                  !.stream1 = <<>>]
                   ELSE [f EXCEPT !.yielded = @ \o t.enqueue,
                                  !.stream1 = Tail(@)]]
       ELSE /\ f.ended
            /\ forks' = [forks EXCEPT ![k].state = "done"]
    /\ UNCHANGED <<teeParts, teeSource>>
    /\ UNCHANGED <<streamVars, envVars, onChunkPending, pipeVars, clientVars, uiVars>>

InitTee ==
    /\ StreamInit
    /\ maxToolRoundtrips = 0
    /\ toolCallStreaming = FALSE
    /\ onChunkAsync = FALSE
    /\ toolCallsMayFail = FALSE
    /\ NoRetries
    /\ PipeIdle
    /\ ClientIdle
    /\ UiIdle
    /\ teeParts \in TeeSequences
    /\ teeSource = teeParts
    /\ forks = <<>>

NextTee ==
    \/ \E kind \in {"textStream", "fullStream"} : teeStream(kind)
    \/ \E k \in 1..Len(forks) : TeePull(k)
    \/ \E k \in 1..Len(forks) : ForkRead(k)

SpecTee == InitTee /\ [][NextTee]_vars

(***************************************************************************)
(* HTTP adapters: toDataStream behind toDataStreamResponse and             *)
(* pipeDataStreamToResponse, and pipeTextStreamToResponse.  Two runs whose *)
(* parts differ in the values of their error parts only are adapted side   *)
(* by side.                                                                *)
(***************************************************************************)
Runs == {1, 2}

PipeAlphabet ==
    {TextDelta(<<"a">>), ErrorWith("error-a"), ToolCall(1, "serverTool"),
     ToolResult(1, "serverTool"), Finish("stop", 10, "meta-a")}

ErrorValues == {"error-a", "error-b"}

SameExceptErrorValues(p, q) ==
    /\ Len(p) = Len(q)
    /\ \A i \in 1..Len(p) :
          \/ p[i] = q[i]
          \/ p[i].type = "error" /\ q[i].type = "error"

\* `${code}:${JSON.stringify(value)}\n`
formatStreamPart(type, value) == [type |-> type, value |-> value]

\* TextEncoderStream: the UTF-8 bytes of the string
TextEncode(string) == [utf8 |-> string]

\* an options.getErrorMessage that shows the error
CallerGetErrorMessage(error) == error

\* variant: the default shows the error
DefaultGetErrorMessageShowsError(error) == error

\* getErrorMessage = () => ''
DefaultGetErrorMessage(error) == ""

getErrorMessage(error) ==
    IF customGetErrorMessage THEN CallerGetErrorMessage(error)
    ELSE DefaultGetErrorMessage(error)

streamPartsTransformer(chunk) ==
    CASE chunk.type = "text-delta" -> formatStreamPart("text", chunk.textDelta)
      [] chunk.type = "tool-call-streaming-start" ->
             formatStreamPart("tool_call_streaming_start",
                              [toolCallId |-> chunk.toolCallId,
                               toolName |-> chunk.toolName])
      [] chunk.type = "tool-call-delta" ->
             formatStreamPart("tool_call_delta", [toolCallId |-> chunk.toolCallId])
      [] chunk.type = "tool-call" ->
             formatStreamPart("tool_call", [toolCallId |-> chunk.toolCallId,
                                            toolName |-> chunk.toolName])
      [] chunk.type = "tool-result" ->
             formatStreamPart("tool_result", [toolCallId |-> chunk.toolCallId])
      [] chunk.type = "error" ->
             formatStreamPart("error", getErrorMessage(chunk.error))
      [] chunk.type = "finish" ->
             formatStreamPart("finish_message",
                              [finishReason |-> chunk.finishReason,
                               usage |-> chunk.usage])

PipeAdapters == {"pipeDataStreamToResponse", "pipeTextStreamToResponse"}

DataAdapters == {"pipeDataStreamToResponse", "toDataStreamResponse"}

\* the next part at or after position i that the text view reacts to
RECURSIVE NextTextOrError(_, _)
NextTextOrError(parts, i) ==
    IF i > Len(parts) \/ parts[i].type \in {"text-delta", "error"} THEN i
    ELSE NextTextOrError(parts, i + 1)

\* what `await reader.read()` gives for a run
ReaderRead(run) ==
    LET parts == pipeParts[run] IN
    IF adapter \in DataAdapters
    THEN IF pipePos < Len(parts)
         THEN [kind |-> "chunk", pos |-> pipePos + 1,
               value |-> TextEncode(streamPartsTransformer(parts[pipePos + 1]))]
         ELSE [kind |-> pipeEnding]
    ELSE LET i == NextTextOrError(parts, pipePos + 1) IN
         IF i > Len(parts) THEN [kind |-> pipeEnding]
         ELSE LET t == textStreamTransform(parts[i]) IN
              IF t.error THEN [kind |-> "error"]
              ELSE [kind |-> "chunk", pos |-> i,
                    value |-> TextEncode(t.enqueue[1])]

\* response.writeHead(init?.status ?? 200, {...})
WriteHead == [op |-> "writeHead"]

\* variant: the response is left open
ResponseEndMissing(log) == log

\* finally { response.end(); }
ResponseEnd(log) == Append(log, [op |-> "end"])

StartAdapter(name) ==
    /\ pipePc = "idle"
    /\ adapter' = name
    /\ pipePc' = "reading"
    /\ UNCHANGED <<customGetErrorMessage, pipeParts, pipeEnding, pipePos>>
    /\ UNCHANGED <<streamVars, envVars, onChunkPending, teeVars, clientVars, uiVars>>

pipeDataStreamToResponse ==
    /\ ~customGetErrorMessage
    /\ StartAdapter("pipeDataStreamToResponse")
    /\ response' = [run \in Runs |-> <<WriteHead>>]

pipeTextStreamToResponse ==
    /\ ~customGetErrorMessage
    /\ StartAdapter("pipeTextStreamToResponse")
    /\ response' = [run \in Runs |-> <<WriteHead>>]

\* the Response object carries the data stream as its body
toDataStreamResponse ==
    /\ StartAdapter("toDataStreamResponse")
    /\ UNCHANGED response

\* reader.read() gives a chunk: response.write(value)
ReadChunk ==
    /\ pipePc = "reading"
    /\ ReaderRead(1).kind = "chunk"
    /\ response' = [run \in Runs |->
                       Append(response[run],
                              [op |-> "write", value |-> ReaderRead(run).value])]
    /\ pipePos' = ReaderRead(1).pos
    /\ UNCHANGED <<adapter, customGetErrorMessage, pipeParts, pipeEnding, pipePc>>
    /\ UNCHANGED <<streamVars, envVars, onChunkPending, teeVars, clientVars, uiVars>>

EndOfRead ==
    /\ pipePc' = "ended"
    /\ response' = [run \in Runs |->
                       IF adapter \in PipeAdapters THEN ResponseEnd(response[run])
                       ELSE response[run]]
    /\ UNCHANGED <<adapter, customGetErrorMessage, pipeParts, pipeEnding, pipePos>>
    /\ UNCHANGED <<streamVars, envVars, onChunkPending, teeVars, clientVars, uiVars>>

\* reader.read() gives done: break, then finally
ReadDone ==
    /\ pipePc = "reading"
    /\ ReaderRead(1).kind = "done"
    /\ EndOfRead

\* reader.read() rejects: rethrown, then finally
ReadFails ==
    /\ pipePc = "reading"
    /\ ReaderRead(1).kind = "error"
    /\ EndOfRead

InitPipe ==
    /\ StreamInit
    /\ maxToolRoundtrips = 0
    /\ toolCallStreaming = FALSE
    /\ onChunkAsync = FALSE
    /\ toolCallsMayFail = FALSE
    /\ NoRetries
    /\ TeeIdle
    /\ ClientIdle
    /\ UiIdle
    /\ adapter = "none"
    /\ customGetErrorMessage \in BOOLEAN
    /\ pipeParts \in
          {pq \in SeqsUpTo(PipeAlphabet, MaxPipeParts)
                    \X SeqsUpTo(PipeAlphabet \cup {ErrorWith(e) : e \in ErrorValues},
                                MaxPipeParts) :
              SameExceptErrorValues(pq[1], pq[2])}
    /\ pipeEnding \in {"done", "error"}
    /\ pipePos = 0
    /\ pipePc = "idle"
    /\ response = <<<<>>, <<>>>>

NextPipe ==
    \/ pipeDataStreamToResponse
    \/ pipeTextStreamToResponse
    \/ toDataStreamResponse
    \/ ReadChunk
    \/ ReadDone
    \/ ReadFails

SpecPipe == InitPipe /\ [][NextPipe]_vars

(***************************************************************************)
(* The provider registry (DefaultProviderRegistry).  Ids are strings,      *)
(* written as sequences of characters.                                     *)
(***************************************************************************)
MaxIdLen == 5

Chars == {"a", "b", ":"}
Ids == SeqsUpTo(Chars, MaxIdLen)

\* String.prototype.includes for a single character
Includes(str, ch) == \E i \in 1..Len(str) : str[i] = ch

\* String.prototype.split: the segments between the separators, all of them
RECURSIVE Split(_, _)
Split(str, sep) ==
    IF ~Includes(str, sep)
    THEN <<str>>
    ELSE LET i == CHOOSE k \in 1..Len(str) :
                      /\ str[k] = sep
                      /\ \A j \in 1..(k - 1) : str[j] # sep
         IN  <<SubSeq(str, 1, i - 1)>> \o Split(SubSeq(str, i + 1, Len(str)), sep)

\* ids under which a provider is registered
ProviderIds == {<<"a">>, <<"b">>}

\* a provider function, given by the model ids it has a model for
ProviderFunctions == {{<<"b">>, <<"b", ":", "a">>}, {<<"a">>}}

\* provider(modelId): <<>> is "no model", <<m>> is the provider's model m
CallProvider(provider, modelId) ==
    IF modelId \in provider THEN <<modelId>> ELSE <<>>

\* this.providers[providerId]: <<>> is undefined
ProviderAt(providerId) ==
    IF \E e \in providers : e.id = providerId
    THEN <<(CHOOSE e \in providers : e.id = providerId).provider>>
    ELSE <<>>

Lookup(id, kind, providerId, modelId) ==
    [id |-> id, kind |-> kind, providerId |-> providerId, modelId |-> modelId]

registerLanguageModelProvider ==
    \E id \in ProviderIds, provider \in ProviderFunctions :
        /\ providers' = {e \in providers : e.id # id}
                            \cup {[id |-> id, provider |-> provider]}
        /\ UNCHANGED lookup
        /\ UNCHANGED <<streamVars, envVars, onChunkPending, adapterVars,
                       streamableVars, uiVars>>

\* the outcome of languageModel(id): the error thrown, or the model returned
\* together with the model id the provider function was called with
LanguageModelOutcome(id) ==
    IF ~Includes(id, ":")
    THEN Lookup(id, "InvalidModelIdError", <<>>, <<>>)
    ELSE LET parts == Split(id, ":")
             providerId == parts[1]
             modelId == parts[2]
             provider == ProviderAt(providerId)
         IN  IF provider = <<>>
             THEN Lookup(id, "NoSuchProviderError", providerId, <<>>)
             ELSE IF CallProvider(provider[1], modelId) = <<>>
                  THEN Lookup(id, "NoSuchModelError", providerId, modelId)
                  ELSE Lookup(id, "model", providerId, modelId)

languageModel ==
    \E id \in Ids :
        /\ lookup' = LanguageModelOutcome(id)
        /\ UNCHANGED providers
        /\ UNCHANGED <<streamVars, envVars, onChunkPending, adapterVars,
                       streamableVars, uiVars>>

InitRegistry ==
    /\ StreamInit
    /\ maxToolRoundtrips = 0
    /\ toolCallStreaming = FALSE
    /\ onChunkAsync = FALSE
    /\ toolCallsMayFail = FALSE
    /\ NoRetries
    /\ TeeIdle
    /\ PipeIdle
    /\ RegistryIdle
    /\ StreamableIdle
    /\ UiIdle

NextRegistry ==
    \/ registerLanguageModelProvider
    \/ languageModel

SpecRegistry == InitRegistry /\ [][NextRegistry]_vars

(***************************************************************************)
(* readStreamableValue: the async iterator over a chain of rows.  Row i's  *)
(* next is the promise of row i + 1; the last row has no next.             *)
(***************************************************************************)
MaxRows == 4

Num(n) == JsValue("number", ToString(n))
Str(str) == JsValue("string", str)

\* a row carries curr, or diff = [0, text], or error, or none of them
Row(kind, value) == [kind |-> kind, value |-> value]
RowValues == {Num(1), Num(2), Num(3), Str("a"), Undefined}
RowAlphabet ==
    {Row("curr", v) : v \in RowValues}
        \cup {Row("diff", Str("b")), Row("none", Undefined),
              Row("error", Str("failure"))}

\* the value of the streamable once row i of the chain has been produced
RECURSIVE ValueAt(_, _)
ValueAt(chain, i) ==
    IF i = 0 THEN Undefined
    ELSE IF chain[i].kind = "curr" THEN chain[i].value
    ELSE IF chain[i].kind = "diff"
         THEN Str(ValueAt(chain, i - 1).repr \o chain[i].value.repr)
    ELSE ValueAt(chain, i - 1)

\* chains a streamable hands out: a row without a value is the initial row
\* or the closing one, an error closes the chain, a diff extends a string
RowChains ==
    {chain \in SeqsUpTo(RowAlphabet, MaxRows) :
        /\ Len(chain) >= 1
        /\ \A i \in 1..Len(chain) :
              /\ chain[i].kind = "none" => i \in {1, Len(chain)}
              /\ chain[i].kind = "error" => i = Len(chain)
              /\ chain[i].kind = "diff" =>
                    /\ i > 1
                    /\ ValueAt(chain, i - 1).typeof = "string"}

\* row.curr: undefined unless the row has the key
CurrOf(r) == IF r.kind = "curr" THEN r.value ELSE Undefined

\* variant: the initial row is never skipped
SkipInitialNever(value) == FALSE

\* typeof curr === 'undefined' at the initial row
SkipInitial(value) == value.typeof = "undefined"

\* the promise of the next row resolves
RowResolves ==
    /\ resolved < Len(rows)
    /\ resolved' = resolved + 1
    /\ UNCHANGED <<rows, row, curr, done, initial, nextPc, yielded>>
    /\ UNCHANGED <<streamVars, envVars, onChunkPending, adapterVars,
                   registryVars, uiVars>>

\* variant: next() awaits the row even when done
nextIgnoresDone ==
    /\ nextPc # "awaiting"
    /\ nextPc' = "awaiting"
    /\ UNCHANGED <<rows, resolved, row, curr, done, initial, yielded>>
    /\ UNCHANGED <<streamVars, envVars, onChunkPending, adapterVars,
                   registryVars, uiVars>>

\* next() is called: it returns at once when done, else it awaits the row
next ==
    /\ nextPc # "awaiting"
    /\ nextPc' = IF done THEN "completed" ELSE "awaiting"
    /\ UNCHANGED <<rows, resolved, row, curr, done, initial, yielded>>
    /\ UNCHANGED <<streamVars, envVars, onChunkPending, adapterVars,
                   registryVars, uiVars>>

\* next() resumes after `row = await row` and runs to its return, to its
\* throw, or to the await of the call it makes to itself
AwaitRow ==
    /\ nextPc = "awaiting"
    /\ row <= resolved
    /\ LET r == rows[row]
           hasNext == row < Len(rows)
           hasValue == r.kind \in {"curr", "diff"}
           invalidPatch == r.kind = "diff" /\ curr.typeof # "string"
           newCurr == IF r.kind = "diff" THEN Str(curr.repr \o r.value.repr)
                      ELSE IF r.kind = "curr" THEN r.value
                      ELSE curr
       IN  IF r.kind = "error" \/ invalidPatch
           THEN /\ nextPc' = "thrown"
                /\ UNCHANGED <<row, curr, done, initial, yielded>>
           ELSE IF ~hasNext
           THEN /\ curr' = newCurr
                /\ done' = hasValue
                /\ yielded' = IF hasValue THEN Append(yielded, newCurr)
                               ELSE yielded
                /\ nextPc' = IF hasValue THEN "idle" ELSE "completed"
                /\ UNCHANGED <<row, initial>>
           ELSE /\ curr' = newCurr
                /\ row' = row + 1
                /\ initial' = FALSE
                /\ IF initial /\ SkipInitial(newCurr)
                   THEN /\ nextPc' = "awaiting"
                        /\ UNCHANGED yielded
                   ELSE /\ nextPc' = "idle"
                        /\ yielded' = Append(yielded, newCurr)
                /\ UNCHANGED done
    /\ UNCHANGED <<rows, resolved>>
    /\ UNCHANGED <<streamVars, envVars, onChunkPending, adapterVars,
                   registryVars, uiVars>>

InitStreamable ==
    /\ StreamInit
    /\ maxToolRoundtrips = 0
    /\ toolCallStreaming = FALSE
    /\ onChunkAsync = FALSE
    /\ toolCallsMayFail = FALSE
    /\ NoRetries
    /\ TeeIdle
    /\ PipeIdle
    /\ RegistryIdle
    /\ UiIdle
    /\ rows \in RowChains
    /\ resolved = 1
    /\ row = 1
    /\ curr = CurrOf(rows[1])
    /\ done = FALSE
    /\ initial = TRUE
    /\ nextPc = "idle"
    /\ yielded = <<>>

NextStreamable ==
    \/ RowResolves
    \/ next
    \/ AwaitRow

SpecStreamable == InitStreamable /\ [][NextStreamable]_vars

(***************************************************************************)
(* useAssistant: append() calls, which may overlap, and stop().  The state *)
(* setters are applied as they are called; input and threadId, which no    *)
(* branch reads, are left out.                                             *)
(***************************************************************************)
MaxContent == 1

InFlight(c) == appendPc[c] \in {"fetching", "reading", "message"}

\* what the awaited fetch or the reader may reject with
Failures(c) ==
    {"Error", "thrown-value"}
        \cup (IF signalAborted[c] THEN {"AbortError"} ELSE {})

\* isAbortError(error)
isAbortError(err) == err = "AbortError"

\* error instanceof Error
InstanceOfError(err) == err \in {"Error", "AbortError"}

UserMessage(c) == [role |-> "user", call |-> c, content |-> 0]
AssistantMessage(c, n) == [role |-> "assistant", call |-> c, content |-> n]

\* append(message) up to `await fetch(...)`
append ==
    \E c \in Calls :
        /\ appendPc[c] = "idle"
        /\ \A b \in Calls : b < c => appendPc[b] # "idle"
        /\ status' = "in_progress"
        /\ threadStatus' = "thread.message.created"
        /\ messages' = Append(messages, UserMessage(c))
        /\ abortControllerRef' = c
        /\ appendPc' = [appendPc EXCEPT ![c] = "fetching"]
        /\ UNCHANGED <<errorState, signalAborted, onErrorCalls>>
        /\ UNCHANGED <<streamVars, envVars, onChunkPending, adapterVars,
                       clientVars, responseVars, hookVars>>

\* stop()
stop ==
    /\ abortControllerRef # 0
    /\ signalAborted' = [signalAborted EXCEPT ![abortControllerRef] = TRUE]
    /\ abortControllerRef' = 0
    /\ UNCHANGED <<status, threadStatus, errorState, messages, appendPc,
                   onErrorCalls>>
    /\ UNCHANGED <<streamVars, envVars, onChunkPending, adapterVars,
                   clientVars, responseVars, hookVars>>

\* finally { abortControllerRef.current = null; setStatus('awaiting_message') }
Finally == "awaiting_message"

\* catch (error) { ... }
Catch(c, err) ==
    IF isAbortError(err) /\ signalAborted[c]
    THEN /\ appendPc' = [appendPc EXCEPT ![c] = "aborted"]
         /\ UNCHANGED <<errorState, onErrorCalls>>
    ELSE /\ onErrorCalls' = IF InstanceOfError(err) THEN Append(onErrorCalls, err)
                            ELSE onErrorCalls
         /\ errorState' = <<err>>
         /\ appendPc' = [appendPc EXCEPT ![c] = "failed"]

\* fetch resolved with a body: the for await loop starts
FetchResolves ==
    \E c \in Calls :
        /\ appendPc[c] = "fetching"
        /\ ~signalAborted[c]
        /\ appendPc' = [appendPc EXCEPT ![c] = "reading"]
        /\ UNCHANGED <<status, threadStatus, errorState, messages,
                       abortControllerRef, signalAborted, onErrorCalls>>
        /\ UNCHANGED <<streamVars, envVars, onChunkPending, adapterVars,
                       clientVars, responseVars, hookVars>>

\* fetch rejected, the body was empty, or reading the stream failed
RequestFails ==
    \E c \in Calls, err \in {"Error", "thrown-value", "AbortError"} :
        /\ InFlight(c)
        /\ err \in Failures(c)
        /\ Catch(c, err)
        /\ abortControllerRef' = 0
        /\ status' = Finally
        /\ UNCHANGED <<threadStatus, messages, signalAborted>>
        /\ UNCHANGED <<streamVars, envVars, onChunkPending, adapterVars,
                       clientVars, responseVars, hookVars>>

\* events of the assistant stream
AssistantEvents ==
    {"thread.run.created", "thread.message.created", "thread.message.delta",
     "error"}

\* one turn of the for await loop
ReadEvent ==
    \E c \in Calls, event \in AssistantEvents :
        /\ appendPc[c] \in {"reading", "message"}
        /\ ~signalAborted[c]
        /\ event = "thread.message.created" => appendPc[c] = "reading"
        /\ event = "thread.message.delta" =>
              /\ appendPc[c] = "message"
              /\ messages[Len(messages)].content < MaxContent
        /\ threadStatus' = event
        /\ messages' =
              CASE event = "thread.message.created" ->
                       Append(messages, AssistantMessage(c, 0))
                [] event = "thread.message.delta" ->
                       Append(SubSeq(messages, 1, Len(messages) - 1),
                              AssistantMessage(c,
                                  messages[Len(messages)].content + 1))
                [] OTHER -> messages
        /\ errorState' = IF event = "error" THEN <<"Internal server error.">>
                         ELSE errorState
        /\ appendPc' = IF event = "thread.message.created"
                       THEN [appendPc EXCEPT ![c] = "message"]
                       ELSE appendPc
        /\ UNCHANGED <<status, abortControllerRef, signalAborted, onErrorCalls>>
        /\ UNCHANGED <<streamVars, envVars, onChunkPending, adapterVars,
                       clientVars, responseVars, hookVars>>

\* the stream was read to its end
StreamEnds ==
    \E c \in Calls :
        /\ appendPc[c] \in {"reading", "message"}
        /\ ~signalAborted[c]
        /\ appendPc' = [appendPc EXCEPT ![c] = "completed"]
        /\ abortControllerRef' = 0
        /\ status' = Finally
        /\ UNCHANGED <<threadStatus, errorState, messages, signalAborted,
                       onErrorCalls>>
        /\ UNCHANGED <<streamVars, envVars, onChunkPending, adapterVars,
                       clientVars, responseVars, hookVars>>

InitAssistant ==
    /\ StreamInit
    /\ maxToolRoundtrips = 0
    /\ toolCallStreaming = FALSE
    /\ onChunkAsync = FALSE
    /\ toolCallsMayFail = FALSE
    /\ NoRetries
    /\ TeeIdle
    /\ PipeIdle
    /\ ClientIdle
    /\ AssistantIdle
    /\ ResponseIdle
    /\ HookIdle

NextAssistant ==
    \/ append
    \/ stop
    \/ FetchResolves
    \/ RequestFails
    \/ ReadEvent
    \/ StreamEnds

SpecAssistant == InitAssistant /\ [][NextAssistant]_vars

(***************************************************************************)
(* AssistantResponse: start(controller) of the response stream, the        *)
(* process callback that is given the senders, and the stream's consumer.  *)
(***************************************************************************)
MaxSent == 3

\* what process may throw: an Error, a string, or undefined
Thrown(type, message, repr) ==
    [typeof |-> type, message |-> message, repr |-> repr]
ThrownValues ==
    {Thrown("object", <<"boom">>, "Error: boom"),
     Thrown("string", <<>>, "oops"),
     Thrown("undefined", <<>>, "undefined")}

\* (error as any).message ?? `${error}`: <<>> when reading .message throws
MessageOf(err) ==
    IF err.typeof = "undefined" THEN <<>>
    ELSE IF err.message # <<>> THEN err.message
    ELSE <<err.repr>>

\* controller.enqueue(textEncoder.encode(formatStreamPart(type, value))):
\* it throws, and queues nothing, unless the stream is readable
ControllerEnqueue(type, value) ==
    IF streamState = "readable"
    THEN Append(sent, TextEncode(formatStreamPart(type, value)))
    ELSE sent

\* new ReadableStream({ start }): start() runs up to `await process(...)`
AssistantResponse ==
    /\ processPc = "idle"
    /\ processPc' = "running"
    /\ UNCHANGED <<sent, streamState, controllerCloseCalls, thrown>>
    /\ UNCHANGED <<streamVars, envVars, onChunkPending, adapterVars,
                   clientVars, assistantVars, hookVars>>

\* process, or something it started and did not await, calls a sender
Sender(type, value) ==
    /\ processPc \in {"running", "settled"}
    /\ Len(sent) < MaxSent
    /\ sent' = ControllerEnqueue(type, value)
    /\ UNCHANGED <<processPc, streamState, controllerCloseCalls, thrown>>
    /\ UNCHANGED <<streamVars, envVars, onChunkPending, adapterVars,
                   clientVars, assistantVars, hookVars>>

sendMessage == Sender("assistant_message", "message")

sendDataMessage == Sender("data_message", "data")

\* one turn of forwardStream's for await loop
forwardStream == Sender("assistant_event", "event")

\* finally { controller.close() }: it throws unless the stream is readable
ControllerClose ==
    /\ controllerCloseCalls' = controllerCloseCalls + 1
    /\ streamState' = IF streamState = "readable" THEN "closed" ELSE streamState

\* process resolved
ProcessResolves ==
    /\ processPc = "running"
    /\ processPc' = "settled"
    /\ ControllerClose
    /\ UNCHANGED <<sent, thrown>>
    /\ UNCHANGED <<streamVars, envVars, onChunkPending, adapterVars,
                   clientVars, assistantVars, hookVars>>

\* process threw or rejected: catch { sendError(...) } finally { close() }
ProcessThrows ==
    \E err \in ThrownValues :
        /\ processPc = "running"
        /\ processPc' = "settled"
        /\ thrown' = <<err>>
        /\ sent' = IF MessageOf(err) = <<>> THEN sent
                   ELSE ControllerEnqueue("error", MessageOf(err)[1])
        /\ ControllerClose
        /\ UNCHANGED <<streamVars, envVars, onChunkPending, adapterVars,
                       clientVars, assistantVars, hookVars>>

\* the consumer of the response cancels the stream: cancel() {}
cancel ==
    /\ processPc \in {"running", "settled"}
    /\ streamState = "readable"
    /\ streamState' = "cancelled"
    /\ UNCHANGED <<processPc, sent, controllerCloseCalls, thrown>>
    /\ UNCHANGED <<streamVars, envVars, onChunkPending, adapterVars,
                   clientVars, assistantVars, hookVars>>

InitResponse ==
    /\ StreamInit
    /\ maxToolRoundtrips = 0
    /\ toolCallStreaming = FALSE
    /\ onChunkAsync = FALSE
    /\ toolCallsMayFail = FALSE
    /\ NoRetries
    /\ TeeIdle
    /\ PipeIdle
    /\ ClientIdle
    /\ AssistantIdle
    /\ ResponseIdle
    /\ HookIdle

NextResponse ==
    \/ AssistantResponse
    \/ sendMessage
    \/ sendDataMessage
    \/ forwardStream
    \/ ProcessResolves
    \/ ProcessThrows
    \/ cancel

SpecResponse == InitResponse /\ [][NextResponse]_vars

(***************************************************************************)
(* useStreamableValue: the layout effect, its cleanup and the iteration it *)
(* starts.  An effect is one run of the effect for one streamable value.   *)
(* React calls a callback handed to startTransition before startTransition *)
(* returns; here the callback is a step of its own, taken before the       *)
(* iteration that handed it over goes on, so that the cleanup may come in  *)
(* between the two, which is more than React allows.                       *)
(***************************************************************************)
MaxValues == 2

\* whether no callback handed over by effect e is still to run: its
\* iteration goes on once they have run
TransitionsRan(e) == \A t \in transitions : t.effect # e

\* a callback handed to startTransition by effect e
Transition(e, setter, value) ==
    [effect |-> e, setter |-> setter, value |-> value]

\* the callbacks the effects hand to startTransition
Transitions ==
    {Transition(e, "setPending", b) : e \in Effects, b \in {"true", "false"}}
        \cup {Transition(e, "setError", "e") : e \in Effects}
        \cup {Transition(e, "setCurr", ToString(n)) :
                e \in Effects, n \in 1..MaxValues}

\* startTransition(() => { if (cancelled) return; set...(...) })
startTransition(e, setter, value) ==
    transitions' = transitions \cup {Transition(e, setter, value)}

\* the effect runs for a new streamable value, after the cleanup of the
\* effect before it
useLayoutEffect ==
    /\ effect < MaxEffects
    /\ effect > 0 => cancelled[effect]
    /\ effect' = effect + 1
    /\ iteratorPc' = [iteratorPc EXCEPT ![effect + 1] = "iterating"]
    /\ \E hasNext \in BOOLEAN :
          IF hasNext
          THEN startTransition(effect + 1, "setPending", "true")
          ELSE UNCHANGED transitions
    /\ UNCHANGED <<cancelled, iterated, updates>>
    /\ UNCHANGED <<streamVars, envVars, onChunkPending, adapterVars,
                   clientVars, assistantVars, responseVars>>

\* the cleanup: the streamable value changed or the component unmounted
cleanup ==
    /\ effect > 0
    /\ ~cancelled[effect]
    /\ cancelled' = [cancelled EXCEPT ![effect] = TRUE]
    /\ UNCHANGED <<effect, iteratorPc, iterated, transitions, updates>>
    /\ UNCHANGED <<streamVars, envVars, onChunkPending, adapterVars,
                   clientVars, assistantVars, responseVars>>

\* the iterator yields a value to the for await loop
IteratorYields(e) ==
    /\ iteratorPc[e] = "iterating"
    /\ TransitionsRan(e)
    /\ iterated[e] < MaxValues
    /\ iterated' = [iterated EXCEPT ![e] = @ + 1]
    /\ IF cancelled[e]
       THEN /\ iteratorPc' = [iteratorPc EXCEPT ![e] = "returned"]
            /\ UNCHANGED transitions
       ELSE /\ startTransition(e, "setCurr", ToString(iterated[e] + 1))
            /\ UNCHANGED iteratorPc
    /\ UNCHANGED <<effect, cancelled, updates>>
    /\ UNCHANGED <<streamVars, envVars, onChunkPending, adapterVars,
                   clientVars, assistantVars, responseVars>>

\* the iterator throws: catch, then finally
IteratorThrows(e) ==
    /\ iteratorPc[e] = "iterating"
    /\ TransitionsRan(e)
    /\ iteratorPc' = [iteratorPc EXCEPT ![e] = "returned"]
    /\ IF cancelled[e]
       THEN UNCHANGED transitions
       ELSE transitions' = transitions \cup
                {Transition(e, "setError", "e"),
                 Transition(e, "setPending", "false")}
    /\ UNCHANGED <<effect, cancelled, iterated, updates>>
    /\ UNCHANGED <<streamVars, envVars, onChunkPending, adapterVars,
                   clientVars, assistantVars, responseVars>>

\* the iterator is done: finally
IteratorCompletes(e) ==
    /\ iteratorPc[e] = "iterating"
    /\ TransitionsRan(e)
    /\ iteratorPc' = [iteratorPc EXCEPT ![e] = "returned"]
    /\ IF cancelled[e]
       THEN UNCHANGED transitions
       ELSE startTransition(e, "setPending", "false")
    /\ UNCHANGED <<effect, cancelled, iterated, updates>>
    /\ UNCHANGED <<streamVars, envVars, onChunkPending, adapterVars,
                   clientVars, assistantVars, responseVars>>

\* variant: the callback sets the state without looking at cancelled
RunTransitionUnchecked(t) ==
    /\ t \in transitions
    /\ transitions' = transitions \ {t}
    /\ updates' = updates \cup {t}
    /\ UNCHANGED <<effect, cancelled, iteratorPc, iterated>>
    /\ UNCHANGED <<streamVars, envVars, onChunkPending, adapterVars,
                   clientVars, assistantVars, responseVars>>

\* a callback handed to startTransition runs
RunTransition(t) ==
    /\ t \in transitions
    /\ transitions' = transitions \ {t}
    /\ updates' = IF cancelled[t.effect] THEN updates ELSE updates \cup {t}
    /\ UNCHANGED <<effect, cancelled, iteratorPc, iterated>>
    /\ UNCHANGED <<streamVars, envVars, onChunkPending, adapterVars,
                   clientVars, assistantVars, responseVars>>

InitHook ==
    /\ StreamInit
    /\ maxToolRoundtrips = 0
    /\ toolCallStreaming = FALSE
    /\ onChunkAsync = FALSE
    /\ toolCallsMayFail = FALSE
    /\ NoRetries
    /\ TeeIdle
    /\ PipeIdle
    /\ ClientIdle
    /\ UiIdle

NextHook ==
    \/ useLayoutEffect
    \/ cleanup
    \/ \E e \in Effects : IteratorYields(e)
    \/ \E e \in Effects : IteratorThrows(e)
    \/ \E e \in Effects : IteratorCompletes(e)
    \/ \E t \in Transitions : RunTransition(t)

SpecHook == InitHook /\ [][NextHook]_vars

(***************************************************************************)
(* Vocabulary of the properties.                                           *)
(***************************************************************************)
Flushed == pc # "streaming"
TerminalReached == pc \in {"awaitOnFinish", "terminal"}
RunOver == pc \in {"terminal", "failed"}

AggregatePromises ==
    <<usagePromise, finishReasonPromise, textPromise, toolCallsPromise,
      toolResultsPromise, providerMetadataPromise>>

AllPending == \A i \in 1..6 : AggregatePromises[i] = Pending
AllSettled == \A i \in 1..6 : AggregatePromises[i] # Pending

\* what a reader of the toolCalls / toolResults promise sees
ToolCallsValue == toolCalls[toolCallsPromise[1]]
ToolResultsValue == toolResults[toolResultsPromise[1]]

HasResult(r, call) ==
    \E i \in 1..Len(toolResults[r]) : toolResults[r][i].toolCallId = call.toolCallId

EveryCallHasResult(r) ==
    \A i \in 1..Len(toolCalls[r]) : HasResult(r, toolCalls[r][i])

RECURSIVE CumulativeText(_)
CumulativeText(r) == (IF r = 0 THEN <<>> ELSE CumulativeText(r - 1)) \o text[r]

RECURSIVE CumulativeToolCalls(_)
CumulativeToolCalls(r) ==
    (IF r = 0 THEN <<>> ELSE CumulativeToolCalls(r - 1)) \o toolCalls[r]

RECURSIVE CumulativeToolResults(_)
CumulativeToolResults(r) ==
    (IF r = 0 THEN <<>> ELSE CumulativeToolResults(r - 1)) \o toolResults[r]

(***************************************************************************)
(* C1: with maxToolRoundtrips = k at most k + 1 provider calls are issued, *)
(* and a roundtrip whose ordinal equals k issues no further call at its    *)
(* flush, even when every tool call of that roundtrip has a result.        *)
(***************************************************************************)
C1_RoundtripCap ==
    /\ Len(callLog) <= maxToolRoundtrips + 1
    /\ pc = "awaitStartRoundtrip" => currentToolRoundtrip < maxToolRoundtrips

\* the last allowed roundtrip had tool calls, all with results, and stopped
C1_Witness ==
    /\ maxToolRoundtrips >= 1
    /\ currentToolRoundtrip = maxToolRoundtrips
    /\ TerminalReached
    /\ Len(toolCalls[currentToolRoundtrip]) > 0
    /\ EveryCallHasResult(currentToolRoundtrip)
    /\ Len(callLog) = maxToolRoundtrips + 1

(***************************************************************************)
(* C2: no aggregate promise is resolved by a roundtrip that continues: at  *)
(* the moment a roundtrip's flush chooses to continue, all six are pending.*)
(***************************************************************************)
C2_NoResolveBeforeFinalRoundtrip ==
    pc = "awaitStartRoundtrip" => AllPending

(***************************************************************************)
(* C3: when a run is over (terminal roundtrip flushed and onFinish         *)
(* settled, or the next provider call failed), every one of the six        *)
(* aggregate promises is settled.                                          *)
(***************************************************************************)
C3_AllSettledWhenRunOver ==
    RunOver => AllSettled

(***************************************************************************)
(* C4: first roundtrip with exactly one tool call whose result arrived     *)
(* before flush, maxToolRoundtrips >= 1, second roundtrip without tool     *)
(* calls: two provider calls in all, and the toolResults promise holds     *)
(* exactly one entry, with the toolCallId of the original call.            *)
(***************************************************************************)
C4_SingleContinuationToolResults ==
    ( /\ pc = "terminal"
      /\ maxToolRoundtrips >= 1
      /\ Len(toolCalls[0]) = 1
      /\ Len(toolResults[0]) = 1
      /\ currentToolRoundtrip >= 1 => Len(toolCalls[1]) = 0 )
    => /\ Len(callLog) = 2
       /\ toolResultsPromise # Pending
       /\ Len(ToolResultsValue) = 1
       /\ ToolResultsValue[1].toolCallId = toolCalls[0][1].toolCallId

(***************************************************************************)
(* C5: at the flush of roundtrip r a provider call is issued if and only   *)
(* if r had at least one tool call, every tool call of r has a tool result *)
(* with the same toolCallId, and r < maxToolRoundtrips.                    *)
(***************************************************************************)
C5_ContinuationIff ==
    [][ (pc = "streaming" /\ pc' # "streaming")
        => ( (Len(callLog') = Len(callLog) + 1)
             <=> ( /\ Len(toolCalls[currentToolRoundtrip]) > 0
                   /\ EveryCallHasResult(currentToolRoundtrip)
                   /\ currentToolRoundtrip < maxToolRoundtrips ) ) ]_vars

\* both outcomes for a roundtrip with tool calls below the cap: a second call
\* was issued for roundtrip 0, and roundtrip 1 stopped on a call without result
C5_Witness ==
    /\ currentToolRoundtrip = 1
    /\ currentToolRoundtrip < maxToolRoundtrips
    /\ TerminalReached
    /\ Len(toolCalls[1]) > 0
    /\ ~EveryCallHasResult(1)
    /\ Len(callLog) = 2

(***************************************************************************)
(* C6: in a run of two or more roundtrips the text promise holds the       *)
(* concatenation of the text deltas of all roundtrips, and the toolCalls   *)
(* and toolResults promises hold the calls and results of all roundtrips.  *)
(***************************************************************************)
C6_CumulativeAggregates ==
    ( /\ pc = "terminal"
      /\ currentToolRoundtrip >= 1
      /\ AllSettled )
    => /\ textPromise = <<CumulativeText(currentToolRoundtrip)>>
       /\ ToolCallsValue = CumulativeToolCalls(currentToolRoundtrip)
       /\ ToolResultsValue = CumulativeToolResults(currentToolRoundtrip)

(***************************************************************************)
(* C7: in a run of two or more roundtrips the usage, finishReason and      *)
(* providerMetadata promises hold the values of the finish part of the     *)
(* last roundtrip.                                                         *)
(***************************************************************************)
C7_LatestFinishValues ==
    ( /\ pc = "terminal"
      /\ currentToolRoundtrip >= 1
      /\ FinishSeen(currentToolRoundtrip) )
    => /\ usagePromise = usage[currentToolRoundtrip]
       /\ finishReasonPromise = finishReason[currentToolRoundtrip]
       /\ providerMetadataPromise = providerMetadata[currentToolRoundtrip]

(***************************************************************************)
(* C8: onFinish is invoked at most once in a run; it has been invoked      *)
(* exactly once as soon as a roundtrip's flush took the terminal branch,   *)
(* and it has not been invoked while roundtrips stream or continue.        *)
(***************************************************************************)
C8_OnFinishOnce ==
    Len(onFinishLog) = IF TerminalReached THEN 1 ELSE 0

\* a run of two roundtrips came to its end
C8_Witness ==
    /\ pc = "terminal"
    /\ currentToolRoundtrip >= 1
    /\ Len(onFinishLog) = 1

(***************************************************************************)
(* C9: when the terminal roundtrip ended without a finish part, the usage  *)
(* promise holds the NaN usage and the finishReason promise "unknown", the *)
(* values passed to onFinish.                                              *)
(***************************************************************************)
C9_FallbackValuesResolved ==
    ( /\ TerminalReached
      /\ ~FinishSeen(currentToolRoundtrip) )
    => /\ usagePromise = <<NaN>>
       /\ finishReasonPromise = <<"unknown">>
       /\ onFinishLog[1].usage = NaN
       /\ onFinishLog[1].finishReason = "unknown"

(***************************************************************************)
(* C10: the logical output is the concatenation, in roundtrip order, of    *)
(* the parts each roundtrip forwards, and a part of roundtrip N+1 is       *)
(* emitted only after roundtrip N has flushed and all its parts are out.   *)
(***************************************************************************)
NotEmptyDelta(chunk) == ~(chunk.type = "text-delta" /\ chunk.textDelta = <<>>)

ForwardedParts(r) == SelectSeq(received[r], NotEmptyDelta)

Tagged(r, parts) == [i \in 1..Len(parts) |-> [roundtrip |-> r, part |-> parts[i]]]

RECURSIVE StitchedParts(_)
StitchedParts(r) ==
    (IF r = 0 THEN <<>> ELSE StitchedParts(r - 1)) \o Tagged(r, ForwardedParts(r))

EmittedOf(r) == SelectSeq(output, LAMBDA o : o.roundtrip = r)

C10_RoundtripsInOrder ==
    /\ Len(output) <= Len(StitchedParts(currentToolRoundtrip))
    /\ output = SubSeq(StitchedParts(currentToolRoundtrip), 1, Len(output))
    /\ \A i \in 1..Len(output) :
          output[i].roundtrip > 0 =>
              LET n == output[i].roundtrip - 1 IN
              /\ rtState[n] = "closed"
              /\ Len(EmittedOf(n)) = Len(ForwardedParts(n))

\* parts of two roundtrips have been emitted
C10_Witness ==
    /\ Len(output) >= 3
    /\ output[1].roundtrip = 0
    /\ output[Len(output)].roundtrip = 1

(***************************************************************************)
(* C11: once the abort signal has fired while a roundtrip was streaming,   *)
(* no provider call is issued any more: no flush takes the continue branch.*)
(***************************************************************************)
C11_NoCallAfterAbort ==
    aborted => pc # "awaitStartRoundtrip"

(***************************************************************************)
(* C13: an aggregate promise that has been resolved keeps its value: later *)
(* resolver calls (one per finish part of each roundtrip) change nothing.  *)
(***************************************************************************)
C13_SingleAssignment ==
    [][ /\ usagePromise # Pending => usagePromise' = usagePromise
        /\ finishReasonPromise # Pending => finishReasonPromise' = finishReasonPromise
        /\ textPromise # Pending => textPromise' = textPromise
        /\ toolCallsPromise # Pending => toolCallsPromise' = toolCallsPromise
        /\ toolResultsPromise # Pending => toolResultsPromise' = toolResultsPromise
        /\ providerMetadataPromise # Pending
               => providerMetadataPromise' = providerMetadataPromise ]_vars

\* two roundtrips processed finish parts with different values
C13_Witness ==
    /\ currentToolRoundtrip >= 1
    /\ usage[0] # <<>>
    /\ usage[1] # <<>>
    /\ usage[1] # usage[0]
    /\ usagePromise = usage[0]

(***************************************************************************)
(* C14: an empty text-delta is never forwarded, never passed to onChunk    *)
(* and leaves the accumulated text as it is; all other parts of a          *)
(* roundtrip are forwarded unchanged and in the order received.            *)
(***************************************************************************)
RECURSIVE TextOf(_)
TextOf(parts) ==
    IF parts = <<>> THEN <<>>
    ELSE (IF Head(parts).type = "text-delta" THEN Head(parts).textDelta ELSE <<>>)
             \o TextOf(Tail(parts))

PartsOf(tagged) == [i \in 1..Len(tagged) |-> tagged[i].part]

\* what roundtrip r has forwarded so far: emitted on the output or still queued
ForwardedSoFar(r) == PartsOf(EmittedOf(r)) \o rtOut[r]

C14_EmptyDeltasFiltered ==
    /\ \A i \in 1..Len(output) : NotEmptyDelta(output[i].part)
    /\ \A i \in 1..Len(onChunkLog) : NotEmptyDelta(onChunkLog[i])
    /\ \A r \in Roundtrips :
          /\ \A i \in 1..Len(rtOut[r]) : NotEmptyDelta(rtOut[r][i])
          /\ text[r] = TextOf(ForwardedParts(r))
          /\ rtState[r] \in {"open", "closed"} => ForwardedSoFar(r) = ForwardedParts(r)

\* an empty text-delta came first, later parts were forwarded and emitted
C14_Witness ==
    /\ Len(received[0]) >= 3
    /\ received[0][1] = TextDelta(<<>>)
    /\ Len(output) = Len(received[0]) - 1

(***************************************************************************)
(* C15: an error part is forwarded like any other part; it does not fail   *)
(* the roundtrip's stream or the output, the parts after it are still      *)
(* forwarded, and the roundtrip still flushes.                             *)
(***************************************************************************)
ErrorCount(parts) == Len(SelectSeq(parts, LAMBDA c : c.type = "error"))

C15_ErrorPartsTransparent ==
    /\ \A r \in Roundtrips :
          /\ rtState[r] \in {"open", "closed"} =>
                /\ ErrorCount(ForwardedSoFar(r)) = ErrorCount(received[r])
                /\ Len(ForwardedSoFar(r)) = Len(ForwardedParts(r))
          /\ rtState[r] = "errored" => pc \in {"terminal", "failed"}
    /\ outState = "errored" => \E r \in Roundtrips : rtState[r] = "errored"

\* two error parts and a later part were emitted, the roundtrip flushed and
\* the output ended normally
C15_Witness ==
    /\ Len(output) >= 3
    /\ output[1].part.type = "error"
    /\ output[2].part.type = "error"
    /\ output[3].part.type # "error"
    /\ rtState[0] = "closed"
    /\ outState = "closed"

(***************************************************************************)
(* C17: onChunk has been called exactly once for each forwarded part of    *)
(* type text-delta, tool-call, tool-call-streaming-start, tool-call-delta  *)
(* and tool-result, in forwarding order, and for no finish or error part.  *)
(***************************************************************************)
ChunkTypes ==
    {"text-delta", "tool-call", "tool-call-streaming-start", "tool-call-delta",
     "tool-result"}

RECURSIVE ChunksOf(_)
ChunksOf(r) ==
    (IF r = 0 THEN <<>> ELSE ChunksOf(r - 1))
        \o SelectSeq(ForwardedParts(r), LAMBDA c : c.type \in ChunkTypes)

C17_OnChunkPerForwardedPart ==
    onChunkLog = ChunksOf(currentToolRoundtrip)

\* a streamed tool call and a finish part went through
C17_Witness ==
    /\ \E i \in 1..Len(onChunkLog) : onChunkLog[i].type = "tool-call-streaming-start"
    /\ \E i \in 1..Len(onChunkLog) : onChunkLog[i].type = "tool-call-delta"
    /\ \E i \in 1..Len(onChunkLog) : onChunkLog[i].type = "tool-call"
    /\ FinishSeen(0)

(***************************************************************************)
(* C18: while a promise returned by onChunk is unsettled, no further part  *)
(* is processed or forwarded and the roundtrip's flush does not run.       *)
(***************************************************************************)
C18_OnChunkPausesDelivery ==
    [][ (onChunkPending /\ onChunkPending')
        => /\ received' = received
           /\ onChunkLog' = onChunkLog
           /\ \A r \in Roundtrips : Len(rtOut'[r]) <= Len(rtOut[r])
           /\ callLog' = callLog
           /\ onFinishLog' = onFinishLog
           /\ isClosed' = isClosed
           /\ pc' = pc ]_vars

\* the output was read while the promise of a later chunk was unsettled
C18_Witness ==
    /\ onChunkPending
    /\ Len(received[0]) >= 2
    /\ Len(output) = Len(ForwardedParts(0))

(***************************************************************************)
(* C12: whatever forks are obtained and however they are read, the parts a *)
(* fullStream fork has yielded, followed by the parts buffered for it, are *)
(* the complete original sequence, unmodified; a fork that has ended has   *)
(* yielded all of it; and a fork obtained now would still get all of it.   *)
(***************************************************************************)
\* the parts still to come to the k-th tee from the streams before it
RECURSIVE Upstream(_)
Upstream(k) ==
    IF k = 1 THEN teeSource ELSE forks[k - 1].stream2 \o Upstream(k - 1)

C12_FullForksComplete ==
    /\ \A k \in 1..Len(forks) :
          forks[k].kind = "fullStream" =>
             /\ forks[k].state # "errored"
             /\ forks[k].yielded \o forks[k].stream1 \o Upstream(k) = teeParts
             /\ forks[k].state = "done" => forks[k].yielded = teeParts
    /\ Upstream(Len(forks) + 1) = teeParts

\* the text fork was read to its end first, and the full fork got everything
C12_Witness ==
    /\ Len(teeParts) >= 2
    /\ Len(forks) = 2
    /\ forks[1].kind = "textStream"
    /\ forks[1].state \in {"done", "errored"}
    /\ forks[2].kind = "fullStream"
    /\ forks[2].state = "done"
    /\ forks[2].yielded = teeParts

(***************************************************************************)
(* C16: a textStream fork yields the textDelta values of the text-delta    *)
(* parts before the first error part, in order, and nothing else; at the   *)
(* first error part it fails with that part's error and yields nothing     *)
(* more; no other fork fails because of it.                                *)
(***************************************************************************)
RECURSIVE TextsBeforeError(_)
TextsBeforeError(parts) ==
    IF parts = <<>> \/ Head(parts).type = "error" THEN <<>>
    ELSE (IF Head(parts).type = "text-delta" THEN <<Head(parts).textDelta>>
          ELSE <<>>) \o TextsBeforeError(Tail(parts))

ErrorsOf(parts) == SelectSeq(parts, LAMBDA c : c.type = "error")

\* the parts fork k has taken so far, while it is open
TakenBy(k) ==
    SubSeq(teeParts, 1,
           Len(teeParts) - Len(forks[k].stream1) - Len(Upstream(k)))

C16_TextForkUntilFirstError ==
    \A k \in 1..Len(forks) :
       IF forks[k].kind = "textStream"
       THEN /\ forks[k].state = "open" =>
                  /\ ErrorsOf(TakenBy(k)) = <<>>
                  /\ forks[k].yielded = TextsBeforeError(TakenBy(k))
            /\ forks[k].state = "done" =>
                  /\ ErrorsOf(teeParts) = <<>>
                  /\ forks[k].yielded = TextsBeforeError(teeParts)
            /\ forks[k].state = "errored" =>
                  /\ ErrorsOf(teeParts) # <<>>
                  /\ forks[k].error = ErrorsOf(teeParts)[1].error
                  /\ forks[k].yielded = TextsBeforeError(teeParts)
       ELSE forks[k].state # "errored"

\* a text fork failed at an error part that has a text-delta before and after
\* it, and a full fork went on to the end
C16_Witness ==
    /\ Len(teeParts) = 3
    /\ teeParts[1].type = "text-delta"
    /\ teeParts[2].type = "error"
    /\ teeParts[3].type = "text-delta"
    /\ \E k \in 1..Len(forks) :
          forks[k].kind = "textStream" /\ forks[k].state = "errored"
    /\ \E k \in 1..Len(forks) :
          forks[k].kind = "fullStream" /\ forks[k].state = "done"

(***************************************************************************)
(* C19: when the caller passes no getErrorMessage, two runs whose parts    *)
(* differ in the values of error parts only give the same data stream      *)
(* output, and every error is encoded with the empty string as message.    *)
(***************************************************************************)
C19_ErrorContentMasked ==
    (adapter \in DataAdapters /\ ~customGetErrorMessage) =>
       /\ response[1] = response[2]
       /\ \A run \in Runs : \A i \in 1..Len(response[run]) :
             (response[run][i].op = "write"
                 /\ response[run][i].value.utf8.type = "error")
                => response[run][i].value.utf8.value = ""

\* two runs with different error values were piped to the end
C19_Witness ==
    /\ adapter = "pipeDataStreamToResponse"
    /\ pipeParts[1] # pipeParts[2]
    /\ Len(pipeParts[1]) >= 2
    /\ pipePc = "ended"
    /\ Len(response[1]) = Len(pipeParts[1]) + 2

(***************************************************************************)
(* C20: the two pipe adapters write the head once and first, then the      *)
(* chunks of the stream in order, and end the response once, as the last   *)
(* call, whether the stream completes or reading fails.                    *)
(***************************************************************************)
\* the chunks the piped stream gives before it completes or fails
ChunksOfStream ==
    LET parts == pipeParts[1] IN
    IF adapter = "pipeTextStreamToResponse"
    THEN LET texts == TextsBeforeError(parts) IN
         [i \in 1..Len(texts) |-> TextEncode(texts[i])]
    ELSE [i \in 1..Len(parts) |-> TextEncode(streamPartsTransformer(parts[i]))]

Written(log) ==
    LET writes == SelectSeq(log, LAMBDA w : w.op = "write") IN
    [i \in 1..Len(writes) |-> writes[i].value]

C20_PipeHeadChunksEnd ==
    LET log == response[1] IN
    (adapter \in PipeAdapters) =>
       /\ log # <<>>
       /\ \A i \in 1..Len(log) : log[i].op = "writeHead" <=> i = 1
       /\ \A i \in 1..Len(log) : log[i].op = "end" => i = Len(log)
       /\ Len(Written(log)) <= Len(ChunksOfStream)
       /\ Written(log) = SubSeq(ChunksOfStream, 1, Len(Written(log)))
       /\ pipePc = "ended" <=> log[Len(log)].op = "end"
       /\ pipePc = "ended" => Written(log) = ChunksOfStream

\* a text pipe wrote a chunk and ended when the read failed at an error part
C20_Witness ==
    /\ adapter = "pipeTextStreamToResponse"
    /\ ErrorsOf(pipeParts[1]) # <<>>
    /\ pipePc = "ended"
    /\ Len(response[1]) >= 3

(***************************************************************************)
(* C21: a roundtrip with a call to a tool that has no execute function     *)
(* never continues: it stays the last roundtrip and no provider call       *)
(* follows it, whatever maxToolRoundtrips is.                              *)
(***************************************************************************)
HasClientToolCall(r) ==
    \E i \in 1..Len(toolCalls[r]) :
        /\ toolCalls[r][i].toolName \in ToolNames
        /\ ~HasExecute(toolCalls[r][i].toolName)

C21_ClientToolNeverContinues ==
    \A r \in Roundtrips :
        HasClientToolCall(r) =>
            /\ currentToolRoundtrip = r
            /\ Len(callLog) = r + 1
            /\ pc \in {"streaming", "awaitOnFinish", "terminal"}

\* a client-side call next to a server-side call that has its result, below
\* the cap: the run has ended at that roundtrip
C21_Witness ==
    /\ maxToolRoundtrips >= 1
    /\ currentToolRoundtrip = 0
    /\ HasClientToolCall(0)
    /\ Len(toolResults[0]) = 1
    /\ Len(toolCalls[0]) = 2
    /\ pc = "terminal"

(***************************************************************************)
(* C22: in a roundtrip's stream a tool-result part comes after the         *)
(* tool-call part with the same toolCallId, in whatever order the          *)
(* executions settle.                                                      *)
(***************************************************************************)
C22_ResultAfterCall ==
    \A r \in Roundtrips : \A i \in 1..Len(received[r]) :
        received[r][i].type = "tool-result" =>
            \E j \in 1..(i - 1) :
                /\ received[r][j].type = "tool-call"
                /\ received[r][j].toolCallId = received[r][i].toolCallId

\* two executions ran at once and settled in the reverse order
C22_Witness ==
    /\ Len(received[0]) = 4
    /\ received[0][1].type = "tool-call"
    /\ received[0][2].type = "tool-call"
    /\ received[0][3].type = "tool-result"
    /\ received[0][4].type = "tool-result"
    /\ received[0][3].toolCallId = received[0][2].toolCallId
    /\ received[0][4].toolCallId = received[0][1].toolCallId

(***************************************************************************)
(* C23: every call of a tool with an execute function has, later in the    *)
(* same roundtrip's stream, a tool-result or an error part for its         *)
(* toolCallId; until then its execution is pending and the stream has not  *)
(* ended.  Parts that come while an execution is pending are forwarded.    *)
(***************************************************************************)
HasOutcome(r, i) ==
    \E j \in (i + 1)..Len(received[r]) :
        /\ received[r][j].type \in {"tool-result", "error"}
        /\ received[r][j].toolCallId = received[r][i].toolCallId

StillPending(r, i) ==
    /\ r = currentToolRoundtrip
    /\ pc = "streaming"
    /\ received[r][i].toolCallId \in pendingExec

C23_ExecutedCallsGetOutcome ==
    \A r \in Roundtrips : \A i \in 1..Len(received[r]) :
        (received[r][i].type = "tool-call" /\ HasExecute(received[r][i].toolName))
            => (HasOutcome(r, i) \/ StillPending(r, i))

\* a text delta that came after the call went out while the execution was
\* pending, and the execution failed afterwards
C23_Witness ==
    /\ Len(received[0]) = 3
    /\ received[0][1].type = "tool-call"
    /\ received[0][2].type = "text-delta"
    /\ received[0][3] = ToolError(received[0][1].toolCallId)
    /\ Len(output) = 3
    /\ pc = "terminal"

(***************************************************************************)
(* C24: a call that names an unknown tool or carries invalid arguments     *)
(* gets an error part for its toolCallId and no result; the stream is not  *)
(* failed by it, the parts after it are forwarded and the roundtrip        *)
(* flushes.                                                                *)
(***************************************************************************)
C24_FailedCallsGetErrorOutcome ==
    \A r \in Roundtrips :
        /\ \A i \in 1..Len(received[r]) :
              (received[r][i].type = "tool-call" /\ ToolCallFails(received[r][i]))
                 => /\ \A j \in 1..Len(received[r]) :
                          received[r][j].type = "tool-result"
                             => received[r][j].toolCallId # received[r][i].toolCallId
                    /\ \/ StillPending(r, i)
                       \/ \E j \in (i + 1)..Len(received[r]) :
                             received[r][j] = ToolError(received[r][i].toolCallId)
        /\ rtState[r] = "errored" => pc \in {"terminal", "failed"}
        /\ rtState[r] \in {"open", "closed"} => ForwardedSoFar(r) = ForwardedParts(r)

\* an unknown tool and invalid arguments, a later text delta, and a normal end
C24_Witness ==
    /\ Len(received[0]) = 4
    /\ received[0][1] = ToolCall(1, "unknownTool")
    /\ received[0][2] = ToolError(1)
    /\ received[0][3] = InvalidArgsToolCall(2, "serverTool")
    /\ received[0][4] = ToolError(2)
    /\ Len(output) = 4
    /\ rtState[0] = "closed"
    /\ outState = "closed"

(***************************************************************************)
(* C25: the stitched output completes only after close() and only when     *)
(* every added stream is drained; with nothing left and no close() it      *)
(* stays open and emits nothing; what it has emitted and what is still     *)
(* queued are the added streams' items in the order of addStream.          *)
(***************************************************************************)
RECURSIVE AddedItems(_)
AddedItems(r) ==
    (IF r = 0 THEN <<>> ELSE AddedItems(r - 1)) \o Tagged(r, received[r])

RECURSIVE QueuedItems(_)
QueuedItems(r) ==
    (IF r = 0 THEN <<>> ELSE QueuedItems(r - 1)) \o Tagged(r, rtOut[r])

C25_CompletionOnlyAfterClose ==
    /\ outState = "closed" =>
          /\ isClosed
          /\ innerStreams = <<>>
          /\ output = AddedItems(MaxToolRoundtripsBound)
    /\ (isClosed /\ innerStreams = <<>>) => outState = "closed"
    /\ output \o QueuedItems(MaxToolRoundtripsBound) = AddedItems(MaxToolRoundtripsBound)

\* every stream added so far is drained and done, close() was not called:
\* the output is still open
C25_Witness ==
    /\ Len(output) >= 1
    /\ innerStreams = <<>>
    /\ ~isClosed
    /\ outState = "open"
    /\ NotAdded # {}

(***************************************************************************)
(* C28: closeStitchableStream is called at most once, by the flush that    *)
(* takes the terminal branch; once it is closed no stream is added, no     *)
(* provider call is issued and no roundtrip starts; a flush that continues *)
(* adds exactly one stream and does not close, a flush that ends closes    *)
(* and adds none.                                                          *)
(***************************************************************************)
C28_CloseOnceTerminalAbsorbing ==
    /\ [](/\ closeCalls <= 1
          /\ isClosed <=> closeCalls = 1
          /\ isClosed <=> TerminalReached)
    /\ [][ /\ closeCalls' # closeCalls =>
                 /\ pc = "streaming" /\ pc' = "awaitOnFinish"
                 /\ innerStreams' = innerStreams
           /\ isClosed =>
                 /\ isClosed'
                 /\ callLog' = callLog
                 /\ Len(innerStreams') <= Len(innerStreams)
                 /\ currentToolRoundtrip' = currentToolRoundtrip
           /\ Len(innerStreams') > Len(innerStreams) =>
                 /\ pc = "awaitStartRoundtrip" /\ pc' = "streaming"
                 /\ innerStreams' = Append(innerStreams, currentToolRoundtrip')
                 /\ ~isClosed' ]_vars

\* two roundtrips: the first added a stream, the second closed
C28_Witness ==
    /\ currentToolRoundtrip = 1
    /\ closeCalls = 1
    /\ pc = "terminal"
    /\ outState = "closed"

(***************************************************************************)
(* C29: what onFinish is given as text, toolCalls, toolResults, usage and  *)
(* finishReason equals what the aggregate promises have resolved to.       *)
(***************************************************************************)
C29_OnFinishEqualsPromises ==
    onFinishLog # <<>> =>
        LET event == onFinishLog[1] IN
        /\ usagePromise # Pending => usagePromise[1] = event.usage
        /\ finishReasonPromise # Pending => finishReasonPromise[1] = event.finishReason
        /\ textPromise # Pending => textPromise[1] = event.text
        /\ toolCallsPromise # Pending => ToolCallsValue = event.toolCalls
        /\ toolResultsPromise # Pending => ToolResultsValue = event.toolResults

(***************************************************************************)
(* C30: every provider call after the first has prompt type 'messages',    *)
(* and its history is the previous call's history followed by the          *)
(* assistant turn (text and tool calls) and the tool turn (tool results)   *)
(* of the roundtrip that continued.                                        *)
(***************************************************************************)
C30_HistoryExtended ==
    \A i \in 2..Len(callLog) :
        /\ callLog[i].promptType = "messages"
        /\ callLog[i].prompt =
              callLog[i - 1].prompt \o
                  <<[role |-> "assistant", text |-> text[i - 2],
                     toolCalls |-> toolCalls[i - 2], toolResults |-> <<>>],
                    [role |-> "tool", text |-> <<>>, toolCalls |-> <<>>,
                     toolResults |-> toolResults[i - 2]]>>

\* two continuations: the third call carries both roundtrips' turns
C30_Witness ==
    /\ Len(callLog) = 3
    /\ Len(callLog[3].prompt) = 5
    /\ currentToolRoundtrip = 2

\* the part of id after its first ':' when id is prefix + ':' + rest
AfterPrefix(id, prefix) == SubSeq(id, Len(prefix) + 2, Len(id))
HasPrefix(id, prefix) ==
    /\ Len(id) > Len(prefix)
    /\ SubSeq(id, 1, Len(prefix)) = prefix
    /\ id[Len(prefix) + 1] = ":"

\* C26: languageModel(id) raises InvalidModelIdError for an id without ':',
\* NoSuchProviderError when the part before the first ':' is not registered,
\* and for every id = providerId + ':' + modelId with providerId registered
\* the provider function is called with exactly modelId: its model is
\* returned, or NoSuchModelError is raised when it has none.
C26_LanguageModelPassesModelId ==
    [][\A id \in Ids :
          lookup' = LanguageModelOutcome(id) =>
            /\ ~Includes(id, ":") => lookup'.kind = "InvalidModelIdError"
            /\ (/\ Includes(id, ":")
                /\ \A e \in providers : ~HasPrefix(id, e.id))
                  => lookup'.kind = "NoSuchProviderError"
            /\ \A e \in providers :
                  HasPrefix(id, e.id) =>
                    /\ lookup'.modelId = AfterPrefix(id, e.id)
                    /\ lookup'.kind =
                          IF AfterPrefix(id, e.id) \in e.provider
                          THEN "model" ELSE "NoSuchModelError"]_vars

\* whether iterating yields the value of row i: the row brings a value, and
\* it is not an initial row whose value is still to come
YieldsRow(chain, i) ==
    /\ chain[i].kind \in {"curr", "diff"}
    /\ ~(i = 1 /\ Len(chain) > 1 /\ chain[i].value.typeof = "undefined")

\* the successive values of the streamable over rows 1..n of the chain
RECURSIVE SuccessiveValues(_, _)
SuccessiveValues(chain, n) ==
    IF n = 0 THEN <<>>
    ELSE IF YieldsRow(chain, n)
         THEN Append(SuccessiveValues(chain, n - 1), ValueAt(chain, n))
         ELSE SuccessiveValues(chain, n - 1)

IsPrefixOf(p, q) == Len(p) <= Len(q) /\ SubSeq(q, 1, Len(p)) = p

\* C27: iterating readStreamableValue yields the successive values of the
\* streamable in order and nothing else, an initial row without a value yet
\* is skipped, and when the iteration completes every value, the final
\* row's included, has been yielded exactly once.
C27_YieldsSuccessiveValues ==
    /\ IsPrefixOf(yielded, SuccessiveValues(rows, Len(rows)))
    /\ nextPc = "completed" =>
          yielded = SuccessiveValues(rows, Len(rows))

\* update(1), update(2), done(3) on a streamable created without a value
C27_Witness ==
    /\ rows = <<Row("curr", Undefined), Row("curr", Num(1)),
                Row("curr", Num(2)), Row("curr", Num(3))>>
    /\ nextPc = "completed"
    /\ yielded = <<Num(1), Num(2), Num(3)>>

\* C31: a doStream call is repeated only while the roundtrip is being set
\* up: once a roundtrip's stream exists, no failure or error part of it makes
\* the provider call of that roundtrip again, and no roundtrip's call is
\* made more than 1 + maxRetries times.
C31_RetriesOnlyAtSetup ==
    /\ [](\A r \in Roundtrips : retries[r] <= maxRetries)
    /\ [][\A r \in Roundtrips :
            retries'[r] # retries[r] =>
                /\ rtState[r] = "none"
                /\ received[r] = <<>>
                /\ callLog' = callLog]_vars

\* a retried roundtrip whose stream then carried an error part and failed
C31_Witness ==
    /\ retries[1] = 1
    /\ \E i \in 1..Len(received[1]) : received[1][i].type = "error"
    /\ rtState[1] = "errored"

\* C32: when startRoundtrip rejects in a continuing flush, the logical
\* output stream ends with an error for a consumer that keeps reading: it
\* does not stay open for ever.
C32_FailedContinuationEndsOutput ==
    (pc = "failed") ~> (outState = "errored")

\* the continuation failed after parts were forwarded, and the output failed
C32_Witness ==
    /\ pc = "failed"
    /\ outState = "errored"
    /\ output # <<>>

\* the terminal flush returned after onFinish threw or rejected
OnFinishThrew ==
    /\ pc = "terminal"
    /\ rtState[currentToolRoundtrip] = "errored"

\* C33: when onFinish throws or rejects, the terminal roundtrip's stream is
\* errored; at that moment the stitchable stream has been closed, once, and
\* the toolResults promise resolved, and the root span is ended exactly once.
C33_OnFinishErrorSurfaced ==
    /\ [](rootSpanEnded <= 1)
    /\ [](OnFinishThrew =>
            /\ isClosed
            /\ closeCalls = 1
            /\ toolResultsPromise # Pending
            /\ rootSpanEnded = 1)
    /\ [][(pc = "awaitOnFinish" /\ pc' = "terminal"
              /\ rtState'[currentToolRoundtrip] = "errored") =>
            /\ isClosed
            /\ toolResultsPromise # Pending
            /\ rootSpanEnded = 0
            /\ rootSpanEnded' = 1]_vars

\* onFinish threw after parts were forwarded; a reader then met the error
C33_Witness ==
    /\ OnFinishThrew
    /\ Len(onFinishLog) = 1
    /\ outState = "errored"
    /\ output # <<>>

\* append() call c settles in this step
Settles(c) ==
    /\ InFlight(c)
    /\ appendPc'[c] \in {"completed", "aborted", "failed"}

\* C34: from the start of an append() call until it settles status is
\* 'in_progress'; when the call settles, by any path, status becomes
\* 'awaiting_message' and the stored abort controller is cleared.
C34_StatusFollowsAppend ==
    /\ [](\A c \in Calls : InFlight(c) => status = "in_progress")
    /\ [][\A c \in Calls :
            Settles(c) => /\ status' = "awaiting_message"
                          /\ abortControllerRef' = 0]_vars

\* the request started last among those in flight whose signal is not aborted
IsCurrentRequest(c) ==
    /\ InFlight(c)
    /\ ~signalAborted[c]
    /\ \A b \in Calls : (InFlight(b) /\ ~signalAborted[b]) => b <= c

\* C35: while an append() request is in flight stop() aborts it, that is,
\* the controller of the current request is the stored one; a request that
\* ends with the abort error leaves the error state, onError and the
\* messages as they were; a request that ends with any other failure sets
\* the error state.
C35_StopAbortsAndIsSwallowed ==
    /\ [](\A c \in Calls : IsCurrentRequest(c) => abortControllerRef = c)
    /\ [][\A c \in Calls :
            (Settles(c) /\ appendPc'[c] = "aborted") =>
                /\ errorState' = errorState
                /\ onErrorCalls' = onErrorCalls
                /\ messages' = messages]_vars
    /\ [][\A c \in Calls :
            (Settles(c) /\ appendPc'[c] = "failed") =>
                errorState' # <<>>]_vars

ErrorPartsSent ==
    {i \in 1..Len(sent) : sent[i].utf8.type = "error"}

\* C36: the stream is closed exactly once, when process has settled and not
\* before; when process threw, exactly one error part with the error's
\* message was enqueued, after every part sent before and right before the
\* close; when it resolved there is no error part; nothing is enqueued
\* after the close.
C36_ClosedOnceErrorBeforeClose ==
    /\ [](processPc = "running" => streamState = "readable")
    /\ [](processPc = "settled" =>
            /\ controllerCloseCalls = 1
            /\ streamState = "closed"
            /\ thrown = <<>> => ErrorPartsSent = {}
            /\ thrown # <<>> =>
                  /\ ErrorPartsSent = {Len(sent)}
                  /\ <<sent[Len(sent)].utf8.value>> = MessageOf(thrown[1]))
    /\ [][processPc = "settled" => sent' = sent]_vars

\* the iterator has returned its result for the last row: the last value
\* with done set, or { done: true } for a last row without a value
LastRowReported == done \/ nextPc = "completed"

\* C37: next() throws only at a row carrying an error, it throws when it
\* reaches one, and by then the values of all earlier rows have been
\* yielded; once the iterator has returned its result for the last row a
\* further next() yields nothing more, ends in done, and never waits for a
\* row that has not arrived yet.
C37_ErrorAfterValuesThenDone ==
    /\ [](nextPc = "thrown" =>
            /\ rows[row].kind = "error"
            /\ yielded = SuccessiveValues(rows, row - 1))
    /\ [][(/\ nextPc = "awaiting"
           /\ row <= resolved
           /\ rows[row].kind = "error"
           /\ nextPc' # nextPc) => nextPc' = "thrown"]_vars
    /\ [][LastRowReported =>
            /\ yielded' = yielded
            /\ nextPc' \in {"completed", "awaiting"}
            /\ nextPc' = "awaiting" =>
                  /\ row' = Len(rows)
                  /\ row' <= resolved'
                  /\ rows[row'].kind = "none"]_vars
    /\ [][(/\ nextPc = "awaiting"
           /\ row = Len(rows)
           /\ row <= resolved
           /\ rows[row].kind = "none"
           /\ nextPc' # nextPc) =>
              /\ nextPc' = "completed"
              /\ yielded' = yielded]_vars

\* update(1), update(2), error('failure'): both values, then the throw
C37_Witness ==
    /\ rows = <<Row("curr", Num(1)), Row("curr", Num(2)),
                Row("error", Str("failure"))>>
    /\ nextPc = "thrown"
    /\ yielded = <<Num(1), Num(2)>>

\* the state updates performed so far on behalf of effect e
UpdatesOf(e) == {u \in updates : u.effect = e}

\* C38: once the cleanup of an effect has run, no setCurr, setError or
\* setPending is performed any more on behalf of that effect's streamable
\* value, whatever the order of the cleanup, the iteration and the callbacks
\* handed to startTransition.
C38_NoUpdateAfterCleanup ==
    [][\A e \in Effects :
          cancelled[e] => UpdatesOf(e)' = UpdatesOf(e)]_vars

\* the cleanup ran between a value's startTransition and its callback, and
\* the iteration returned at the next value: no update for the effect
C38_Witness ==
    /\ cancelled[1]
    /\ iterated[1] = 2
    /\ iteratorPc[1] = "returned"
    /\ UpdatesOf(1) = {}
    /\ \A t \in transitions : t.effect # 1

====
